---- MODULE Spec2Model ----
(***************************************************************************)
(* Model of the backup / restore / aging core of the `age` CLI.            *)
(*                                                                         *)
(*   src/src/utils/files.ts     FileUtils (backup, restore, registry)      *)
(*   src/unnamed/part_004       AgeCommand.execute (the aging pipeline)    *)
(*   src/src/commands/undo.ts   UndoCommand.execute                        *)
(*   src/src/config/hierarchy.ts ConfigManager (resolver, local config)    *)
(*   src/src/types/changes.ts   DocumentTypeDetector                       *)
(*   src/src/filters/frontmatter.ts FrontmatterProcessor                   *)
(*   src/src/filters/links.ts   LinkProcessor                              *)
(*   src/src/utils/markdown.ts  MarkdownParser                             *)
(*   src/src/interactive/approval.ts InteractiveApproval                   *)
(*                                                                         *)
(* The disk is modelled as three stores: the notes (`files`), the backup   *)
(* copies (`backups`) and one registry.json per backup directory           *)
(* (`registry`).  File contents are byte sequences; reading and writing    *)
(* go through the 'utf8' codec exactly as fs.readFileSync(.., 'utf8') and  *)
(* fs.writeFileSync(.., 'utf8') do.                                        *)
(***************************************************************************)
EXTENDS Integers, Sequences, FiniteSets, TLC

VARIABLES
  files,     \* the notes on disk: path -> bytes
  backups,   \* the backup copies on disk: backup path -> bytes
  registry,  \* registry.json of each backup directory
  ageDirs,   \* the directories that hold a .age directory
  now,       \* the clock, in ticks
  held,      \* the BackupInfo the latest createBackup call returned
  ops,       \* number of handler runs and edits so far
  last,      \* what the latest step did
  configFiles,     \* config.json of each directory that may hold one
  DEFAULT_CONFIG,  \* the defaults object of the running process
  hierarchy,       \* what the latest loadConfigHierarchy call returned
  resolves,        \* number of resolver steps so far
  document,        \* the parsed document handed to the classifier
  detectorConfig,  \* the document types of the detector's configuration
  detection,       \* what detectDocumentType returned
  heap,               \* the metadata objects of the pipeline: reference -> map
  ageDocument,        \* the document AgeCommand.execute parsed
  changePlan,         \* the ChangePlan of the run
  processedDocument,  \* what applyChanges returned
  stage,              \* where the run is: idle, or asking the user
  effects,            \* the prompts, answers, backups and writes of the run
  activeRules,        \* the metadata rules of the run's document type
  vaultTree,    \* the files and directories the link verifier sees
  vaultResult,  \* the latest call of verifyVaultLink and what it returned
  linkCache,    \* LinkProcessor.linkCache: url -> result with its timestamp
  clock,        \* Date.now() of the link verifier, in milliseconds
  waits,        \* number of times the clock has advanced
  planning,     \* the running call of planLinkChanges
  linkPlan      \* what the latest call of planLinkChanges returned

backupVars == <<files, backups, registry, ageDirs, now, held, ops, last>>
configVars == <<configFiles, DEFAULT_CONFIG, hierarchy, resolves>>
detectVars == <<document, detectorConfig, detection>>
planVars ==
  <<heap, ageDocument, changePlan, processedDocument, stage, effects,
    activeRules>>
linkVars ==
  <<vaultTree, vaultResult, linkCache, clock, waits, planning, linkPlan>>

vars == <<backupVars, configVars, detectVars, planVars, linkVars>>

\* The configuration resolver is not running.
ConfigIdle ==
  /\ configFiles = <<>>
  /\ DEFAULT_CONFIG = <<>>
  /\ hierarchy = <<>>
  /\ resolves = 0

\* The classifier is not running.
DetectIdle ==
  /\ document = <<>>
  /\ detectorConfig = <<>>
  /\ detection = <<>>

\* The pipeline's planner is not running.
PlanIdle ==
  /\ heap = <<>>
  /\ ageDocument = <<>>
  /\ changePlan = <<>>
  /\ processedDocument = <<>>
  /\ stage = ""
  /\ effects = <<>>
  /\ activeRules = <<>>

\* The link verifier is not running.
LinkIdle ==
  /\ vaultTree = <<>>
  /\ vaultResult = <<>>
  /\ linkCache = <<>>
  /\ clock = 0
  /\ waits = 0
  /\ planning = <<>>
  /\ linkPlan = <<>>

\* What a step of the backup subsystem leaves alone.
BackupFrame == UNCHANGED <<configVars, detectVars, planVars, linkVars>>

\* Only the backup subsystem runs.
BackupOnly == ConfigIdle /\ DetectIdle /\ PlanIdle /\ LinkIdle

\* What a step of the aging pipeline leaves alone.
PipelineFrame == UNCHANGED <<configVars, detectVars, linkVars>>

\* Only the aging pipeline runs, on the disk of the backup subsystem.
PipelineOnly == ConfigIdle /\ DetectIdle /\ LinkIdle

\* The backup subsystem is not running.
BackupIdle ==
  /\ files = <<>>
  /\ backups = <<>>
  /\ registry = <<>>
  /\ ageDirs = {}
  /\ now = 0
  /\ held = <<>>
  /\ ops = 0
  /\ last = <<>>

\* What a step of the link verifier leaves alone.
LinkFrame == UNCHANGED <<backupVars, configVars, detectVars, planVars>>

\* Only the link verifier runs.
LinkOnly == BackupIdle /\ ConfigIdle /\ DetectIdle /\ PlanIdle

\* What a step of the configuration resolver leaves alone.
ConfigFrame == UNCHANGED <<backupVars, detectVars, planVars, linkVars>>

\* Only the configuration resolver runs.
ConfigOnly == BackupIdle /\ DetectIdle /\ PlanIdle /\ LinkIdle

\* What a step of the classifier leaves alone.
DetectFrame == UNCHANGED <<backupVars, configVars, planVars, linkVars>>

\* Only the classifier runs.
DetectOnly == BackupIdle /\ ConfigIdle /\ PlanIdle /\ LinkIdle

(***************************************************************************)
(* Bounds of the model.                                                    *)
(***************************************************************************)
\* The clock runs over 0..MaxClock ticks.
MaxClock == 2
\* Ticks that fall into the same minute (the resolution of a backup name).
TicksPerMinute == 2
\* Ticks in one day (the unit of the retention window).
TicksPerDay == 2
\* Largest retention, in days, passed to cleanupOldBackups.
MaxRetentionDays == 1
\* Number of handler runs and edits in one behaviour.
MaxOps == 3
\* Largest number of entries of a registry found on disk at the start.
MaxSeedEntries == 2

(***************************************************************************)
(* Bytes, text and the utf8 codec.                                         *)
(***************************************************************************)
\* U+FFFD, the replacement character the decoder emits for invalid input.
ReplacementChar == 65533

\* The three bytes of U+FFFD in UTF-8 (EF BF BD).
ReplacementBytes == <<239, 191, 189>>

\* Buffer.toString('utf8'): ASCII bytes decode to themselves, EF BF BD to
\* U+FFFD, and every other byte (an invalid sequence) to U+FFFD.
RECURSIVE Utf8Decode(_)
Utf8Decode(bytes) ==
  IF bytes = <<>> THEN <<>>
  ELSE IF Head(bytes) < 128
       THEN <<Head(bytes)>> \o Utf8Decode(Tail(bytes))
  ELSE IF Len(bytes) >= 3 /\ SubSeq(bytes, 1, 3) = ReplacementBytes
       THEN <<ReplacementChar>> \o Utf8Decode(SubSeq(bytes, 4, Len(bytes)))
  ELSE <<ReplacementChar>> \o Utf8Decode(Tail(bytes))

\* Buffer.from(text, 'utf8').
RECURSIVE Utf8Encode(_)
Utf8Encode(text) ==
  IF text = <<>> THEN <<>>
  ELSE IF Head(text) < 128
       THEN <<Head(text)>> \o Utf8Encode(Tail(text))
  ELSE ReplacementBytes \o Utf8Encode(Tail(text))

\* crypto.createHash('sha256').update(text).digest('hex'): the digest of the
\* utf8 encoding of the text (collision-free abstraction of SHA-256).
Sha256(text) == <<"sha256", Utf8Encode(text)>>

\* Contents a user gives a note: an ASCII text and a Latin-1 byte that is not
\* valid UTF-8.
NoteBytes == { <<65>>, <<255>> }

\* Text produced by generateUpdatedDocument for a non-empty plan.
AgedTexts == { <<67>> }

(***************************************************************************)
(* Paths.                                                                  *)
(***************************************************************************)
\* Filesystem root, the vault directory, one sub-directory, the home dir.
RootDir == "/"
VaultDir == "/v"
SubDir == "/v/a"
HomeDir == "~"

\* path.dirname for the directories of the model.
Parent(dir) ==
  CASE dir = SubDir -> VaultDir
    [] dir = VaultDir -> RootDir
    [] OTHER -> RootDir

\* The notes: two files with the same basename in different directories.
Paths == { [dir |-> VaultDir, base |-> "n"], [dir |-> SubDir, base |-> "n"] }

\* A directory given as a path (its parent plus its own name).
DirAsPath(dir) == [dir |-> Parent(dir), base |-> dir]

\* Directories that may hold a .age directory.
AnchorDirs == { VaultDir, SubDir }

\* Directories holding backups and a registry.json.
BackupDirs == AnchorDirs \cup { HomeDir }

(***************************************************************************)
(* I/O faults.  A handler run suffers at most one failing system call,     *)
(* named by its site and its error code.                                   *)
(***************************************************************************)
NoFault == <<"none", "none">>

\* writeFileSync fails either before touching the file (EACCES) or after
\* the file was opened and truncated (ENOSPC).
WriteFaults(site) == { <<site, "EACCES">>, <<site, "ENOSPC">> }

\* The store `store` with `key` holding `bytes`.
Put(store, key, bytes) ==
  [k \in DOMAIN store \cup {key} |-> IF k = key THEN bytes ELSE store[k]]

\* The store without `key`.
Remove(store, key) == [k \in DOMAIN store \ {key} |-> store[k]]

\* FileUtils.safeReadFile: the utf8 decoding of the file's bytes.
SafeReadFile(store, key) == Utf8Decode(store[key])

\* FileUtils.safeWriteFile of `text` at `key`, under `fault` at `site`.
SafeWriteFile(store, key, text, fault, site) ==
  IF fault = <<site, "EACCES">>
  THEN [store |-> store, threw |-> TRUE]
  ELSE IF fault = <<site, "ENOSPC">>
       THEN [store |-> Put(store, key, <<>>), threw |-> TRUE]
  ELSE [store |-> Put(store, key, Utf8Encode(text)), threw |-> FALSE]

(***************************************************************************)
(* Backup records and the registry.                                        *)
(***************************************************************************)
\* timestamp.toISOString().replace(/[:.]/g,'').replace('T','-').slice(0,15):
\* the date and the hour and minute, seconds and milliseconds cut off.
TimestampStr(ms) == ms \div TicksPerMinute

\* A timestamp held in memory as a Date.
DateOf(ms) == [isDate |-> TRUE, ms |-> ms]

\* JSON.parse(JSON.stringify(record)): a Date comes back as a string.
JsonRoundTrip(entries) ==
  [i \in DOMAIN entries |->
     [entries[i] EXCEPT !.timestamp = [isDate |-> FALSE, ms |-> @.ms]]]

\* The value standing for "no record".
NoRecord ==
  [originalPath |-> [dir |-> "", base |-> ""],
   backupPath |-> [dir |-> "", base |-> "", stamp |-> 0 - 1],
   timestamp |-> [isDate |-> FALSE, ms |-> 0 - 1],
   fileSize |-> 0,
   checksum |-> <<"none", <<>>>>]

\* registry.json of a backup directory: absent, unparseable, or an array.
AbsentRegistry == [state |-> "absent", entries |-> <<>>]
CorruptRegistry == [state |-> "corrupt", entries |-> <<>>]
RegistryOf(entries) == [state |-> "ok", entries |-> entries]

\* FileUtils.findBackupDirectory: the nearest ancestor directory holding a
\* .age directory, the filesystem root itself never being looked at;
\* otherwise the global directory in the user's home.
RECURSIVE WalkUp(_, _)
WalkUp(anchors, currentDir) ==
  IF currentDir = RootDir THEN HomeDir
  ELSE IF currentDir \in anchors THEN currentDir
  ELSE WalkUp(anchors, Parent(currentDir))

findBackupDirectory(anchors, filePath) == WalkUp(anchors, filePath.dir)

\* (a, b) => b.timestamp.getTime() - a.timestamp.getTime() throws a
\* TypeError when a timestamp is a string; sort calls it as soon as there
\* are two elements, and every element takes part in a comparison.
ComparatorThrows(entries) ==
  Len(entries) >= 2 /\ \E i \in DOMAIN entries : ~entries[i].timestamp.isDate

\* Stable insertion of e into a sequence sorted newest first.
RECURSIVE InsertNewestFirst(_, _)
InsertNewestFirst(sorted, e) ==
  IF sorted = <<>> THEN <<e>>
  ELSE IF Head(sorted).timestamp.ms >= e.timestamp.ms
       THEN <<Head(sorted)>> \o InsertNewestFirst(Tail(sorted), e)
  ELSE <<e>> \o sorted

\* Array.prototype.sort with the newest-first comparator (stable).
RECURSIVE SortNewestFirst(_)
SortNewestFirst(entries) ==
  IF entries = <<>> THEN <<>>
  ELSE InsertNewestFirst(SortNewestFirst(SubSeq(entries, 1, Len(entries) - 1)),
                         entries[Len(entries)])

\* FileUtils.updateBackupRegistry on the registry `reg` of the backup
\* directory: load (a missing or unparseable file gives []), push, sort,
\* save (a failing save is only a warning).
updateBackupRegistry(reg, backupInfo, fault) ==
  LET loaded == IF reg.state = "ok" THEN reg.entries ELSE <<>>
      pushed == Append(loaded, backupInfo)
  IN IF ComparatorThrows(pushed)
     THEN [registry |-> reg, threw |-> TRUE]
     ELSE IF fault = <<"registry", "EACCES">>
          THEN [registry |-> reg, threw |-> FALSE]
     ELSE IF fault = <<"registry", "ENOSPC">>
          THEN [registry |-> CorruptRegistry, threw |-> FALSE]
     ELSE [registry |-> RegistryOf(JsonRoundTrip(SortNewestFirst(pushed))),
           threw |-> FALSE]

\* The disk as one value.
Disk == [files |-> files, backups |-> backups, registry |-> registry]

\* FileUtils.createBackup(filePath) at time `ms` on disk D.  Yields the new
\* disk, whether the call returned (ok) and the record it returned.
createBackup(D, anchors, filePath, ms, fault) ==
  LET backupDir == findBackupDirectory(anchors, filePath)
      backupPath == [dir |-> backupDir, base |-> filePath.base,
                     stamp |-> TimestampStr(ms)]
  IN IF filePath \notin DOMAIN D.files \/ fault = <<"readTarget", "EACCES">>
     THEN [disk |-> D, ok |-> FALSE, error |-> "IOError", info |-> NoRecord]
     ELSE
       LET content == SafeReadFile(D.files, filePath)
           checksum == Sha256(content)
           copy == SafeWriteFile(D.backups, backupPath, content, fault, "backup")
           backupInfo == [originalPath |-> filePath,
                          backupPath |-> backupPath,
                          timestamp |-> DateOf(ms),
                          fileSize |-> Len(D.files[filePath]),
                          checksum |-> checksum]
           upd == updateBackupRegistry(D.registry[backupDir], backupInfo, fault)
       IN IF copy.threw
          THEN [disk |-> [D EXCEPT !.backups = copy.store],
                ok |-> FALSE, error |-> "IOError", info |-> NoRecord]
          ELSE IF upd.threw
               THEN [disk |-> [D EXCEPT !.backups = copy.store],
                     ok |-> FALSE, error |-> "TypeError", info |-> NoRecord]
          ELSE [disk |-> [D EXCEPT !.backups = copy.store,
                                   !.registry[backupDir] = upd.registry],
                ok |-> TRUE, error |-> "none", info |-> backupInfo]

\* The integrity check left out.
ChecksumMatches_Skipped(backupContent, backupInfo) == TRUE

\* The integrity check of restoreFromBackup.
ChecksumMatches(backupContent, backupInfo) ==
  Sha256(backupContent) = backupInfo.checksum

\* FileUtils.restoreFromBackup(backupInfo) at time `ms` on disk D.
restoreFromBackup(D, anchors, backupInfo, ms, fault) ==
  IF backupInfo.backupPath \notin DOMAIN D.backups
  THEN [disk |-> D, outcome |-> "NotFound", made |-> NoRecord]
  ELSE
    LET backupContent == SafeReadFile(D.backups, backupInfo.backupPath)
    IN IF ~ChecksumMatches(backupContent, backupInfo)
       THEN [disk |-> D, outcome |-> "IntegrityError", made |-> NoRecord]
       ELSE
         LET exists == backupInfo.originalPath \in DOMAIN D.files
             cur == createBackup(D, anchors, backupInfo.originalPath, ms, fault)
             D1 == IF exists THEN cur.disk ELSE D
             wr == SafeWriteFile(D1.files, backupInfo.originalPath,
                                 backupContent, fault, "target")
         IN IF exists /\ ~cur.ok
            THEN [disk |-> D1, outcome |-> cur.error, made |-> NoRecord]
            ELSE [disk |-> [D1 EXCEPT !.files = wr.store],
                  outcome |-> IF wr.threw THEN "IOError" ELSE "ok",
                  made |-> IF exists THEN cur.info ELSE NoRecord]

\* FileUtils.findBackupsForFile(filePath): the registry entries of the
\* file's backup directory for this path whose backup file exists, newest
\* first; [] when the registry is missing, unparseable or the sort throws.
findBackupsForFile(D, anchors, filePath) ==
  LET reg == D.registry[findBackupDirectory(anchors, filePath)]
      Matches(b) == b.originalPath = filePath
      Exists(b) == b.backupPath \in DOMAIN D.backups
      found == SelectSeq(SelectSeq(reg.entries, Matches), Exists)
  IN IF reg.state # "ok" THEN <<>>
     ELSE IF ComparatorThrows(found) THEN <<>>
     ELSE SortNewestFirst(found)

\* The loop counting every entry of toDelete, its file deleted or not.
DeleteOldFiles_CountAll(store, toDelete, cleanedCount, fault) ==
  [store |-> IF fault = <<"unlink", "EACCES">> THEN store
             ELSE [bp \in DOMAIN store
                           \ { toDelete[i].backupPath : i \in DOMAIN toDelete }
                     |-> store[bp]],
   cleanedCount |-> cleanedCount + Len(toDelete)]

\* The loop of cleanupOldBackups deleting the files of toDelete in order:
\* a file that is missing, or whose unlink fails, is not counted.
RECURSIVE DeleteOldFiles(_, _, _, _)
DeleteOldFiles(store, toDelete, cleanedCount, fault) ==
  IF toDelete = <<>> THEN [store |-> store, cleanedCount |-> cleanedCount]
  ELSE LET backupPath == Head(toDelete).backupPath
       IN IF backupPath \in DOMAIN store /\ fault # <<"unlink", "EACCES">>
          THEN DeleteOldFiles(Remove(store, backupPath), Tail(toDelete),
                              cleanedCount + 1, fault)
          ELSE DeleteOldFiles(store, Tail(toDelete), cleanedCount, fault)

\* The comparison with the cutoff taken inclusive.
IsOld_Inclusive(backup, ms, retentionDays) ==
  backup.timestamp.ms <= ms - retentionDays * TicksPerDay

\* backupDate < cutoffDate, the cutoff being retentionDays before now.
IsOld(backup, ms, retentionDays) ==
  backup.timestamp.ms < ms - retentionDays * TicksPerDay

\* FileUtils.cleanupOldBackups(directory, retentionDays) at time `ms`.
cleanupOldBackups(D, anchors, directory, retentionDays, ms, fault) ==
  LET backupDir == findBackupDirectory(anchors, DirAsPath(directory))
      reg == D.registry[backupDir]
      Old(b) == IsOld(b, ms, retentionDays)
      Young(b) == ~IsOld(b, ms, retentionDays)
      toDelete == SelectSeq(reg.entries, Old)
      toKeep == SelectSeq(reg.entries, Young)
      del == DeleteOldFiles(D.backups, toDelete, 0, fault)
      saved == IF toDelete = <<>> \/ fault = <<"registry", "EACCES">>
               THEN reg
               ELSE IF fault = <<"registry", "ENOSPC">> THEN CorruptRegistry
               ELSE RegistryOf(toKeep)
  IN IF reg.state # "ok"
     THEN [disk |-> D, count |-> 0, toDelete |-> <<>>]
     ELSE [disk |-> [D EXCEPT !.backups = del.store,
                              !.registry[backupDir] = saved],
           count |-> del.cleanedCount, toDelete |-> toDelete]

(***************************************************************************)
(* The state machine.                                                      *)
(***************************************************************************)
\* What the latest step did: the handler, its arguments (path, fault, the
\* record restored, the retention in days) and its result (outcome, the
\* record createBackup returned, the list found by undo or the entries
\* cleanup found too old, the count returned).
Report(op, path, fault, outcome, rec, made, list, count) ==
  [op |-> op, path |-> path, fault |-> fault, outcome |-> outcome,
   rec |-> rec, made |-> made, list |-> list, count |-> count, days |-> 0]

NoPath == [dir |-> "", base |-> ""]

\* A fresh vault: the notes exist, nothing has been backed up yet.
Init ==
  /\ files \in [Paths -> NoteBytes]
  /\ backups = <<>>
  /\ registry = [d \in BackupDirs |-> AbsentRegistry]
  /\ ageDirs = {VaultDir}
  /\ now = 0
  /\ held = NoRecord
  /\ ops = 0
  /\ last = Report("init", NoPath, NoFault, "ok", NoRecord, NoRecord, <<>>, 0)
  /\ BackupOnly

SetDisk(D) ==
  /\ files' = D.files
  /\ backups' = D.backups
  /\ registry' = D.registry

\* One more handler run or edit.
Step ==
  /\ ops < MaxOps
  /\ ops' = ops + 1

\* Time passes.
Tick ==
  /\ now < MaxClock
  /\ now' = now + 1
  /\ last' = Report("tick", NoPath, NoFault, "ok", NoRecord, NoRecord, <<>>, 0)
  /\ UNCHANGED <<files, backups, registry, ageDirs, held, ops>>

\* The user edits a note in an editor.
UserEdit ==
  \E p \in Paths, bytes \in NoteBytes :
    /\ Step
    /\ files' = Put(files, p, bytes)
    /\ last' = Report("edit", p, NoFault, "ok", NoRecord, NoRecord, <<>>, 0)
    /\ UNCHANGED <<backups, registry, ageDirs, now, held>>

\* FileUtils.createBackup called on a note.
Backup ==
  \E p \in Paths,
     fault \in {NoFault, <<"readTarget", "EACCES">>}
                 \cup WriteFaults("backup") \cup WriteFaults("registry") :
    LET r == createBackup(Disk, ageDirs, p, now, fault)
    IN /\ Step
       /\ SetDisk(r.disk)
       /\ held' = IF r.ok THEN r.info ELSE held
       /\ last' = Report("backup", p, fault, IF r.ok THEN "ok" ELSE r.error,
                         NoRecord, r.info, <<>>, 0)
       /\ UNCHANGED <<ageDirs, now>>

\* The records a caller of restoreFromBackup can hold: the one createBackup
\* returned to it, and those it read from a registry.
KnownRecords ==
  ({held} \cup UNION { { registry[d].entries[i] : i \in DOMAIN registry[d].entries }
                        : d \in BackupDirs })
    \ {NoRecord}

\* FileUtils.restoreFromBackup called with a record.
Restore ==
  \E backupInfo \in KnownRecords, fault \in {NoFault} \cup WriteFaults("target") :
    LET r == restoreFromBackup(Disk, ageDirs, backupInfo, now, fault)
    IN /\ Step
       /\ SetDisk(r.disk)
       /\ last' = Report("restore", backupInfo.originalPath, fault, r.outcome,
                         backupInfo, r.made, <<>>, 0)
       /\ UNCHANGED <<ageDirs, now, held>>

\* UndoCommand.execute(filePath): list the backups, let the user pick one
\* (or cancel), restore it.
Undo ==
  \E p \in Paths, fault \in {NoFault} \cup WriteFaults("target") :
    LET found == findBackupsForFile(Disk, ageDirs, p)
    IN /\ Step
       /\ UNCHANGED <<ageDirs, now, held>>
       /\ IF found = <<>>
          THEN /\ last' = Report("undo", p, fault, "NoBackups",
                                 NoRecord, NoRecord, found, 0)
               /\ UNCHANGED <<files, backups, registry>>
          ELSE \/ /\ last' = Report("undo", p, fault, "cancelled",
                                    NoRecord, NoRecord, found, 0)
                  /\ UNCHANGED <<files, backups, registry>>
               \/ \E i \in DOMAIN found :
                    LET r == restoreFromBackup(Disk, ageDirs, found[i], now, fault)
                    IN /\ SetDisk(r.disk)
                       /\ last' = Report("undo", p, fault, r.outcome,
                                         found[i], r.made, found, 0)

\* The inputs of one run of the aging pipeline: the plan computed from the
\* document (empty or not), the user's answer, and the fault of the run.
AgeRuns ==
  { <<"empty", "none", NoFault>>, <<"changes", "abort", NoFault>> }
    \cup { <<"changes", "approve", f>> :
             f \in {NoFault, <<"apply", "throw">>}
                     \cup WriteFaults("backup") \cup WriteFaults("target") }

\* AgeCommand.execute(filePath): parse, plan, ask, back up, apply, write.
Age ==
  \E p \in Paths, run \in AgeRuns, newContent \in AgedTexts :
    LET plan == run[1]
        answer == run[2]
        fault == run[3]
        b == createBackup(Disk, ageDirs, p, now, fault)
        wr == SafeWriteFile(b.disk.files, p, newContent, fault, "target")
        Done(outcome, made) ==
          last' = Report("age", p, fault, outcome, NoRecord, made, <<>>, 0)
    IN /\ Step
       /\ UNCHANGED <<ageDirs, now, held>>
       /\ IF p \notin DOMAIN files
          THEN Done("NotFound", NoRecord) /\ UNCHANGED <<files, backups, registry>>
          ELSE IF plan = "empty"
          THEN Done("noop", NoRecord) /\ UNCHANGED <<files, backups, registry>>
          ELSE IF answer = "abort"
          THEN Done("cancelled", NoRecord) /\ UNCHANGED <<files, backups, registry>>
          ELSE IF ~b.ok
          THEN Done("BackupFailed", NoRecord) /\ SetDisk(b.disk)
          ELSE IF fault = <<"apply", "throw">>
          THEN Done("failed", b.info) /\ SetDisk(b.disk)
          ELSE /\ Done(IF wr.threw THEN "failed" ELSE "ok", b.info)
               /\ SetDisk([b.disk EXCEPT !.files = wr.store])

\* FileUtils.cleanupOldBackups called for a directory.
Cleanup ==
  \E directory \in AnchorDirs, retentionDays \in 0..MaxRetentionDays,
     fault \in {NoFault, <<"unlink", "EACCES">>} \cup WriteFaults("registry") :
    LET r == cleanupOldBackups(Disk, ageDirs, directory, retentionDays, now, fault)
    IN /\ Step
       /\ SetDisk(r.disk)
       /\ last' = [Report("cleanup", DirAsPath(directory), fault, "ok",
                          NoRecord, NoRecord, r.toDelete, r.count)
                     EXCEPT !.days = retentionDays]
       /\ UNCHANGED <<ageDirs, now, held>>

Next ==
  \/ Tick /\ BackupFrame
  \/ UserEdit /\ BackupFrame
  \/ Backup /\ BackupFrame
  \/ Restore /\ BackupFrame
  \/ Undo /\ BackupFrame
  \/ Age /\ BackupFrame
  \/ Cleanup /\ BackupFrame

Spec == Init /\ [][Next]_vars

(***************************************************************************)
(* A vault that has been in use: the backup directory of the vault holds   *)
(* a registry.json as the registry format describes it (an array of        *)
(* records, newest first, each naming its own backup file, which may have  *)
(* been deleted since), and people may touch the backup files.             *)
(***************************************************************************)
\* The bytes of the backup files found at the start.
SeedBytes == <<65>>

\* A registry record as registry.json holds it (the timestamp a string).
SeedRecord(p, ms) ==
  [originalPath |-> p,
   backupPath |-> [dir |-> VaultDir, base |-> p.base, stamp |-> TimestampStr(ms)],
   timestamp |-> [isDate |-> FALSE, ms |-> ms],
   fileSize |-> Len(SeedBytes),
   checksum |-> Sha256(Utf8Decode(SeedBytes))]

SeedRecords == { SeedRecord(p, ms) : p \in Paths, ms \in 0..MaxClock }

\* Newest first, every record with a backup file of its own.
IsSeedRegistry(entries) ==
  \A i, j \in DOMAIN entries :
    i < j => /\ entries[i].timestamp.ms > entries[j].timestamp.ms
             /\ entries[i].backupPath # entries[j].backupPath

SeedRegistries ==
  { entries \in UNION { [1..n -> SeedRecords] : n \in 0..MaxSeedEntries } :
      IsSeedRegistry(entries) }

InitSeeded ==
  /\ files \in [Paths -> NoteBytes]
  /\ registry \in { [d \in BackupDirs |->
                       IF d = VaultDir THEN RegistryOf(entries) ELSE AbsentRegistry]
                     : entries \in SeedRegistries }
  /\ backups \in { [bp \in present |-> SeedBytes] :
                     present \in SUBSET { registry[VaultDir].entries[i].backupPath :
                                            i \in DOMAIN registry[VaultDir].entries } }
  /\ ageDirs = {VaultDir}
  /\ now = MaxClock
  /\ held = NoRecord
  /\ ops = 0
  /\ last = Report("init", NoPath, NoFault, "ok", NoRecord, NoRecord, <<>>, 0)
  /\ BackupOnly

\* Somebody changes the bytes of a backup file.
TamperBackup ==
  \E bp \in DOMAIN backups, bytes \in NoteBytes :
    /\ bytes # backups[bp]
    /\ Step
    /\ backups' = Put(backups, bp, bytes)
    /\ last' = Report("tamper", NoPath, NoFault, "ok", NoRecord, NoRecord, <<>>, 0)
    /\ UNCHANGED <<files, registry, ageDirs, now, held>>

\* Somebody deletes a backup file.
DeleteBackupFile ==
  \E bp \in DOMAIN backups :
    /\ Step
    /\ backups' = Remove(backups, bp)
    /\ last' = Report("unlink", NoPath, NoFault, "ok", NoRecord, NoRecord, <<>>, 0)
    /\ UNCHANGED <<files, registry, ageDirs, now, held>>

NextSeeded ==
  \/ Backup /\ BackupFrame
  \/ Restore /\ BackupFrame
  \/ Undo /\ BackupFrame
  \/ Cleanup /\ BackupFrame
  \/ TamperBackup /\ BackupFrame
  \/ DeleteBackupFile /\ BackupFrame

SpecSeeded == InitSeeded /\ [][NextSeeded]_vars

(***************************************************************************)
(* Properties of the backup manager and of the aging pipeline.             *)
(***************************************************************************)
\* The step just taken ran a handler that restores a record.
IsRestoreStep == last'.op \in {"restore", "undo"} /\ last'.rec # NoRecord

\* The step just taken ran the aging pipeline up to its approval.
IsAgeStep == last'.op = "age"

\* The step wrote the note it was run on, the note existing before.
OverwroteTarget ==
  /\ last'.path \in DOMAIN files
  /\ files'[last'.path] # files[last'.path]

\* The step left a backup file, returned by createBackup, holding exactly
\* the bytes the note had before the step.
BackedUpVerbatim ==
  /\ last'.made # NoRecord
  /\ last'.made.backupPath \in DOMAIN backups'
  /\ backups'[last'.made.backupPath] = files[last'.path]

\* C1: in the aging pipeline and in restore, a write that overwrites the
\* target file happens only after a backup of this invocation succeeded, and
\* that backup holds the content the target had just before the write.
C1_BackupBeforeOverwrite ==
  [][(IsAgeStep \/ IsRestoreStep) /\ OverwroteTarget => BackedUpVerbatim]_vars

\* C2: when a step of the aging pipeline fails after the backup was created,
\* the note on disk afterwards has the content it had at backup time.
C2_RollbackOnFailure ==
  [][IsAgeStep /\ last'.made # NoRecord /\ last'.outcome = "failed"
       => files'[last'.path] = files[last'.path]]_vars

\* C3: backup(path) returning r, followed immediately by restore(r), without
\* any I/O fault, completes and leaves at path the content of backup time.
C3_RoundTrip ==
  [][/\ last.op = "backup" /\ last.outcome = "ok" /\ last.fault = NoFault
     /\ last'.op = "restore" /\ last'.rec = last.made /\ last'.fault = NoFault
     => /\ last'.outcome = "ok"
        /\ files'[last'.path] = files[last'.path]]_vars

\* C5: when a restore overwrites an existing target (no I/O fault), then
\* afterwards listBackups(target) holds a record whose backup file has
\* exactly the content the target had before the restore.
C5_RestoreUndoable ==
  [][/\ IsRestoreStep /\ last'.fault = NoFault /\ last'.outcome = "ok"
     /\ last'.path \in DOMAIN files
     => LET found == findBackupsForFile(Disk', ageDirs', last'.path)
        IN \E i \in DOMAIN found :
             /\ found[i].backupPath \in DOMAIN backups'
             /\ backups'[found[i].backupPath] = files[last'.path]]_vars

\* C6: a backup file, once created, is not modified or overwritten by a
\* later backup, age or restore run (here: runs without any I/O fault).
C6_BackupsImmutable ==
  [][last'.op \in {"backup", "age", "restore", "undo"} /\ last'.fault = NoFault
       => \A bp \in DOMAIN backups :
            bp \in DOMAIN backups' /\ backups'[bp] = backups[bp]]_vars

\* C7: a backup call on an existing note, without I/O fault, appends its
\* record: the registry of the backup directory holds one record more, and
\* is ordered newest first.
C7_RegistryAppends ==
  [][/\ last'.op = "backup" /\ last'.fault = NoFault
     /\ last'.path \in DOMAIN files
     => LET d == findBackupDirectory(ageDirs, last'.path)
        IN /\ registry'[d].state = "ok"
           /\ Len(registry'[d].entries) = Len(registry[d].entries) + 1
           /\ \A i, j \in DOMAIN registry'[d].entries :
                i < j => registry'[d].entries[i].timestamp.ms
                           >= registry'[d].entries[j].timestamp.ms]_vars

\* The disk is as it was before the step.
DiskUnchanged == UNCHANGED <<files, backups, registry>>

ListedIndices(p) ==
  LET reg == registry[findBackupDirectory(ageDirs, p)]
  IN { i \in DOMAIN reg.entries :
         /\ reg.entries[i].originalPath = p
         /\ reg.entries[i].backupPath \in DOMAIN backups }

\* C8: the list UndoCommand gets from findBackupsForFile holds exactly the
\* registry entries for the path whose backup file exists, newest first.
C8_ListBackupsExact ==
  [][last'.op = "undo" =>
       LET reg == registry[findBackupDirectory(ageDirs, last'.path)]
           found == last'.list
       IN /\ Len(found) = Cardinality(ListedIndices(last'.path))
          /\ { found[i] : i \in DOMAIN found }
               = { reg.entries[i] : i \in ListedIndices(last'.path) }
          /\ \A i, j \in DOMAIN found :
               i < j => found[i].timestamp.ms >= found[j].timestamp.ms]_vars

\* The step ran cleanupOldBackups on a readable registry and the registry
\* file could be written.
IsCleanupStep ==
  /\ last'.op = "cleanup"
  /\ registry[findBackupDirectory(ageDirs, last'.path)].state = "ok"
  /\ last'.fault \notin WriteFaults("registry")

\* The entries of the registry cleanup works on, before the step, that are
\* older (TRUE) or not older (FALSE) than now minus the retention.
Partition(older) ==
  LET reg == registry[findBackupDirectory(ageDirs, last'.path)]
      Pick(b) == (b.timestamp.ms < now - last'.days * TicksPerDay) = older
  IN SelectSeq(reg.entries, Pick)

\* C9: cleanup removes from the registry exactly the entries whose timestamp
\* precedes now minus the retention; the newer entries stay, in order and
\* unchanged, and their backup files stay as they are.
C9_PruneExact ==
  [][IsCleanupStep =>
       LET d == findBackupDirectory(ageDirs, last'.path)
           kept == Partition(FALSE)
       IN /\ registry'[d] = RegistryOf(kept)
          /\ \A i \in DOMAIN kept :
               kept[i].backupPath \in DOMAIN backups
                 => /\ kept[i].backupPath \in DOMAIN backups'
                    /\ backups'[kept[i].backupPath] = backups[kept[i].backupPath]]_vars

\* A cleanup removed an old entry, deleted its file, and kept a newer one.
C9_Witness ==
  /\ last.op = "cleanup"
  /\ last.fault = NoFault
  /\ last.count >= 1
  /\ registry[findBackupDirectory(ageDirs, last.path)].entries # <<>>

\* C10 (as claimed): cleanup returns the number of registry entries it
\* removed.
C10_CountsEntries ==
  [][IsCleanupStep => last'.count = Len(Partition(TRUE))]_vars

\* C10 (amended): cleanup returns the number of backup files it deleted,
\* each of them the file of an old entry; a file that is missing or cannot
\* be deleted does not stop it: the registry is rewritten with exactly the
\* retained entries.
C10_CountsDeletedFiles ==
  [][IsCleanupStep =>
       LET d == findBackupDirectory(ageDirs, last'.path)
           old == Partition(TRUE)
       IN /\ last'.count = Cardinality(DOMAIN backups \ DOMAIN backups')
          /\ DOMAIN backups' \subseteq DOMAIN backups
          /\ \A bp \in DOMAIN backups \ DOMAIN backups' :
               \E i \in DOMAIN old : old[i].backupPath = bp
          /\ last'.outcome = "ok"
          /\ registry'[d] = RegistryOf(Partition(FALSE))]_vars

\* A cleanup found entries too old, could delete none of their files, and
\* still completed and took the entries out of the registry.
C10_Witness ==
  /\ last.op = "cleanup"
  /\ last.fault \notin WriteFaults("registry")
  /\ Len(last.list) >= 1
  /\ last.count < Len(last.list)
  /\ LET reg == registry[findBackupDirectory(ageDirs, last.path)]
     IN /\ reg.state = "ok"
        /\ \A i \in DOMAIN last.list, j \in DOMAIN reg.entries :
             last.list[i] # reg.entries[j]

(***************************************************************************)
(* The configuration resolver.                                             *)
(*                                                                         *)
(*   src/src/config/defaults.ts    DEFAULT_CONFIG                          *)
(*   src/src/config/hierarchy.ts   ConfigManager.loadConfigHierarchy       *)
(*                                                                         *)
(* A JavaScript object is a function from its own keys to their values; a  *)
(* key that is not in the domain reads as undefined.  An array is a        *)
(* sequence.  The documentTypes of a parsed tier file are kept as the      *)
(* sequence Object.entries returns, in the order of the file.              *)
(***************************************************************************)

\* Number of resolver steps of one run of the model.
MaxConfigSteps == 2

\* A directory outside every vault.
OutsideDir == "/w"

\* The paths loadConfigHierarchy is called with.
ConfigPaths == Paths \cup { [dir |-> OutsideDir, base |-> "n"] }

\* The directories whose .age/config.json may exist.
ConfigDirs == { HomeDir, VaultDir, SubDir }

\* obj[key], or the empty object when obj[key] is undefined (what a spread
\* of undefined contributes).
Get(obj, key) == IF key \in DOMAIN obj THEN obj[key] ELSE <<>>

\* { ...a, ...b } with the precedence reversed.
Spread_FirstWins(a, b) ==
  [k \in DOMAIN a \cup DOMAIN b |-> IF k \in DOMAIN a THEN a[k] ELSE b[k]]

\* { ...a, ...b }
Spread(a, b) ==
  [k \in DOMAIN a \cup DOMAIN b |-> IF k \in DOMAIN b THEN b[k] ELSE a[k]]

\* [...new Set(list)]: the first occurrence of each element, in order.
RECURSIVE Dedup(_, _)
Dedup(list, seen) ==
  IF list = <<>> THEN <<>>
  ELSE IF Head(list) \in seen THEN Dedup(Tail(list), seen)
  ELSE <<Head(list)>> \o Dedup(Tail(list), seen \cup {Head(list)})

\* [...a, ...b] without the Set.
SetSpread_Concat(a, b) == a \o b

\* [...new Set([...a, ...b])]
SetSpread(a, b) == Dedup(a \o b, {})

\* The literal of defaults.ts.
DefaultsLiteral ==
  [ai |-> [provider |-> "none"],
   backup |-> [retention |-> "30d", compress |-> FALSE, maxSize |-> "100MB"],
   processing |-> [interactive |-> TRUE, batchSize |-> 10, parallel |-> FALSE],
   documentTypes |->
     ("meeting-notes" :>
        [frontmatter |->
           [keep |-> <<"date", "attendees", "project", "tags">>,
            remove |-> <<"author", "status", "draft">>,
            add |-> [aged_date |-> "{{current_date}}",
                     summary_length |-> "short"]],
         content |-> [summarize |-> FALSE,
                      preserve |-> <<"action-items", "decisions">>,
                      urlProcessing |-> TRUE, linkVerification |-> TRUE]])
     @@
     ("research" :>
        [frontmatter |->
           [keep |-> <<"source", "methodology", "tags", "references">>,
            remove |-> <<"author", "status", "draft">>,
            add |-> [aged_date |-> "{{current_date}}",
                     key_findings |-> "{{extract_key_findings}}"]],
         content |-> [summarize |-> FALSE,
                      preserve |-> <<"methodology", "findings", "conclusions">>,
                      urlProcessing |-> TRUE, linkVerification |-> TRUE]])
     @@
     ("project-work" :>
        [frontmatter |->
           [keep |-> <<"project", "priority", "due_date", "tags">>,
            remove |-> <<"status", "draft">>,
            add |-> [aged_date |-> "{{current_date}}",
                     completion_status |-> "{{calculate_completion}}"]],
         content |-> [summarize |-> FALSE,
                      preserve |-> <<"requirements", "blockers", "progress">>,
                      urlProcessing |-> FALSE, linkVerification |-> TRUE]])
     @@
     ("personal-notes" :>
        [frontmatter |->
           [keep |-> <<"date", "tags", "mood">>,
            remove |-> <<"author", "draft">>,
            add |-> [aged_date |-> "{{current_date}}",
                     reflection_type |-> "{{detect_reflection_type}}"]],
         content |-> [summarize |-> FALSE,
                      preserve |-> <<"insights", "ideas">>,
                      urlProcessing |-> FALSE, linkVerification |-> FALSE]])]

\* A config.json: absent, not parseable, or the JSON value it holds.
AbsentFile == [kind |-> "absent"]
MalformedFile == [kind |-> "malformed"]
JsonFile(value) == [kind |-> "json", value |-> value]

\* The document types a tier file may define, its values marked with `tag`.
\* The lists share "date", "draft" and "x" with the defaults and with each
\* other, and the custom keep list names a field twice.
MeetingEntry(tag) ==
  [name |-> "meeting-notes",
   config |-> [frontmatter |-> [keep |-> <<"date", tag>>,
                                remove |-> <<tag, "draft">>,
                                add |-> [aged_date |-> tag]],
               content |-> [summarize |-> TRUE]]]

CustomEntry(tag) ==
  [name |-> "custom",
   config |-> [frontmatter |-> [keep |-> <<tag, "x", tag>>,
                                remove |-> <<"x">>,
                                add |-> [k |-> tag],
                                modify |-> [m |-> tag]],
               content |-> [summarize |-> FALSE]]]

\* A document type without its frontmatter rules.
BareEntry == [name |-> "meeting-notes", config |-> [content |-> [summarize |-> TRUE]]]

\* The contents a config.json in directory `dir` may have.
TierFiles(dir) ==
  { AbsentFile, MalformedFile,
    JsonFile([ai |-> [model |-> dir], backup |-> [retention |-> dir]]),
    JsonFile([ai |-> [provider |-> "openai", model |-> dir],
              documentTypes |-> <<MeetingEntry(dir)>>]),
    JsonFile([documentTypes |-> <<CustomEntry(dir)>>]),
    JsonFile([processing |-> [interactive |-> FALSE],
              documentTypes |-> <<MeetingEntry(dir), CustomEntry(dir)>>]),
    JsonFile([ai |-> [model |-> dir], documentTypes |-> <<BareEntry>>]) }

\* loadConfigFile: JSON.parse throws on a file that is not JSON.
loadConfigFile(file) ==
  IF file.kind = "json" THEN [threw |-> FALSE, value |-> file.value]
  ELSE [threw |-> TRUE, value |-> <<>>]

\* typeConfig.frontmatter.keep and .remove are read and spread as arrays.
FrontmatterReadable(typeConfig) ==
  /\ "frontmatter" \in DOMAIN typeConfig
  /\ {"keep", "remove"} \subseteq DOMAIN typeConfig.frontmatter

\* The object assigned to target.documentTypes[typeName] on a merge.
MergedType(existing, typeConfig) ==
  [frontmatter |->
     [keep |-> SetSpread(existing.frontmatter.keep, typeConfig.frontmatter.keep),
      remove |-> SetSpread(existing.frontmatter.remove, typeConfig.frontmatter.remove),
      add |-> Spread(Get(existing.frontmatter, "add"),
                     Get(typeConfig.frontmatter, "add")),
      modify |-> Spread(Get(existing.frontmatter, "modify"),
                        Get(typeConfig.frontmatter, "modify"))],
   content |-> Spread(Get(existing, "content"), Get(typeConfig, "content"))]

\* The loop over Object.entries(source.documentTypes); a TypeError leaves
\* the entries merged so far in place.
RECURSIVE MergeTypes(_, _)
MergeTypes(types, entries) ==
  IF entries = <<>> THEN [types |-> types, threw |-> FALSE]
  ELSE LET typeName == Head(entries).name
           typeConfig == Head(entries).config
       IN IF typeName \in DOMAIN types
          THEN IF FrontmatterReadable(types[typeName]) /\ FrontmatterReadable(typeConfig)
               THEN MergeTypes([types EXCEPT ![typeName] =
                                  MergedType(types[typeName], typeConfig)],
                               Tail(entries))
               ELSE [types |-> types, threw |-> TRUE]
          ELSE MergeTypes((typeName :> typeConfig) @@ types, Tail(entries))

\* One of the sections ai, backup, processing.
MergeSection(target, source, section) ==
  IF section \in DOMAIN source
  THEN (section :> Spread(Get(target, section), source[section])) @@ target
  ELSE target

\* mergeConfig(target, source): target as the call leaves it, and whether
\* the call threw.
mergeConfig(target, source) ==
  LET scalars == MergeSection(MergeSection(MergeSection(target, source, "ai"),
                                           source, "backup"),
                              source, "processing")
      merged == MergeTypes(Get(scalars, "documentTypes"), source.documentTypes)
  IN IF "documentTypes" \in DOMAIN source
     THEN [target |-> ("documentTypes" :> merged.types) @@ scalars,
           threw |-> merged.threw]
     ELSE [target |-> scalars, threw |-> FALSE]

\* fs.existsSync of the config.json of a directory.
ConfigExists(cfgFiles, dir) ==
  dir \in DOMAIN cfgFiles /\ cfgFiles[dir].kind # "absent"

\* findVaultConfig: the nearest directory, from the file's own directory up
\* to but without the root, that holds .age/config.json.
RECURSIVE FindVaultFrom(_, _)
FindVaultFrom(cfgFiles, currentDir) ==
  IF currentDir = RootDir THEN "null"
  ELSE IF ConfigExists(cfgFiles, currentDir) THEN currentDir
  ELSE FindVaultFrom(cfgFiles, Parent(currentDir))

findVaultConfig(cfgFiles, filePath) == FindVaultFrom(cfgFiles, filePath.dir)

\* findLocalConfig: the file's own directory.
findLocalConfig(cfgFiles, filePath) ==
  IF ConfigExists(cfgFiles, filePath.dir) THEN filePath.dir ELSE "null"

\* A tier that was not loaded.
Undefined == [kind |-> "undefined"]

\* The body of one try block of loadConfigHierarchy: load the file, keep
\* it in the hierarchy, merge it.  outcome "threw" while an exception is
\* on its way up.
TierBlock(h, tier, cfgFiles, dir) ==
  LET loaded == loadConfigFile(cfgFiles[dir])
      m == mergeConfig(h.effective, loaded.value)
  IN IF loaded.threw
     THEN [h EXCEPT !.outcome = "threw"]
     ELSE [h EXCEPT ![tier] = loaded.value,
                    !.effective = m.target,
                    !.outcome = IF m.threw THEN "threw" ELSE "ok"]

\* catch (error) { console.warn(...) }
Catch(h, tier) ==
  IF h.outcome = "threw"
  THEN [h EXCEPT !.outcome = "ok", !.warnings = h.warnings \cup {tier}]
  ELSE h

\* if (fs.existsSync(path)) { try { ... } catch { ... } }
LoadTier(h, tier, cfgFiles, dir) ==
  IF h.outcome = "threw" \/ dir = "null" \/ ~ConfigExists(cfgFiles, dir) THEN h
  ELSE Catch(TierBlock(h, tier, cfgFiles, dir), tier)

\* loadConfigHierarchy(filePath), starting from the defaults object as it
\* is in memory.
loadConfigHierarchy(defaults, cfgFiles, filePath) ==
  LET h0 == [effective |-> defaults, global |-> Undefined, vault |-> Undefined,
             local |-> Undefined, warnings |-> {}, outcome |-> "ok",
             path |-> filePath]
      h1 == LoadTier(h0, "global", cfgFiles, HomeDir)
      h2 == LoadTier(h1, "vault", cfgFiles, findVaultConfig(cfgFiles, filePath))
  IN LoadTier(h2, "local", cfgFiles, findLocalConfig(cfgFiles, filePath))

\* No call has returned yet.
NoHierarchy == [outcome |-> "none"]

InitConfig ==
  /\ configFiles \in { f \in [ConfigDirs -> UNION { TierFiles(d) : d \in ConfigDirs }] :
                         \A d \in ConfigDirs : f[d] \in TierFiles(d) }
  /\ DEFAULT_CONFIG = DefaultsLiteral
  /\ hierarchy = NoHierarchy
  /\ resolves = 0
  /\ ConfigOnly

\* A command calls loadConfigHierarchy.  `effective` is a shallow copy of
\* DEFAULT_CONFIG: effective.documentTypes is the defaults' own object, so
\* what the merge assigns to it stays in DEFAULT_CONFIG.
LoadConfigHierarchy ==
  \E filePath \in ConfigPaths :
    LET h == loadConfigHierarchy(DEFAULT_CONFIG, configFiles, filePath)
    IN /\ resolves < MaxConfigSteps
       /\ resolves' = resolves + 1
       /\ hierarchy' = h
       /\ DEFAULT_CONFIG' = [DEFAULT_CONFIG EXCEPT
                               !.documentTypes = h.effective.documentTypes]
       /\ UNCHANGED configFiles

\* The process ends and the next command starts a new one.
NewProcess ==
  /\ resolves < MaxConfigSteps
  /\ hierarchy # NoHierarchy
  /\ resolves' = resolves + 1
  /\ hierarchy' = NoHierarchy
  /\ DEFAULT_CONFIG' = DefaultsLiteral
  /\ UNCHANGED configFiles

NextConfig ==
  \/ LoadConfigHierarchy /\ ConfigFrame
  \/ NewProcess /\ ConfigFrame

SpecConfig == InitConfig /\ [][NextConfig]_vars

(***************************************************************************)
(* Claims about the configuration resolver.                                *)
(***************************************************************************)

\* The step is a call of loadConfigHierarchy that came to its end.
IsResolveStep == resolves' = resolves + 1 /\ hierarchy' # NoHierarchy

\* The directories from `dir` up to but without the root.
RECURSIVE DirsAbove(_)
DirsAbove(dir) == IF dir = RootDir THEN {} ELSE {dir} \cup DirsAbove(Parent(dir))

\* No tier of `filePath` has a config.json.
NoTierPresent(cfgFiles, filePath) ==
  \A d \in ({HomeDir} \cup DirsAbove(filePath.dir)) \cap DOMAIN cfgFiles :
    cfgFiles[d].kind = "absent"

\* Every section and every document type of cfg can be read by the
\* classifier and the planner.
IsUsable(cfg) ==
  /\ {"ai", "backup", "processing", "documentTypes"} \subseteq DOMAIN cfg
  /\ "provider" \in DOMAIN cfg.ai
  /\ "retention" \in DOMAIN cfg.backup
  /\ "interactive" \in DOMAIN cfg.processing
  /\ DOMAIN DefaultsLiteral.documentTypes \subseteq DOMAIN cfg.documentTypes
  /\ \A c \in DOMAIN cfg.documentTypes :
       FrontmatterReadable(cfg.documentTypes[c]) /\ "content" \in DOMAIN cfg.documentTypes[c]

\* C11: resolve(path) never fails and returns a usable Configuration whether
\* each tier is absent, well-formed or malformed, and with no tier present
\* the result equals the compiled-in defaults.
C11_ResolveTotal ==
  [][IsResolveStep =>
       /\ hierarchy'.outcome = "ok"
       /\ IsUsable(hierarchy'.effective)
       /\ (NoTierPresent(configFiles, hierarchy'.path)
             => hierarchy'.effective = DefaultsLiteral)]_vars

\* The elements of a list, and whether none occurs twice.
Elems(list) == { list[i] : i \in DOMAIN list }
NoDuplicates(list) == Cardinality(Elems(list)) = Len(list)

TierNames == { "global", "vault", "local" }

\* The document type entries of a loaded tier.
EntriesOf(tier) ==
  IF tier # Undefined /\ "documentTypes" \in DOMAIN tier
  THEN tier.documentTypes ELSE <<>>

\* The tier was loaded and every document type in it has its lists.
WellTyped(tier) ==
  /\ tier # Undefined
  /\ \A i \in DOMAIN EntriesOf(tier) : FrontmatterReadable(EntriesOf(tier)[i].config)

\* The lists named `field` that the merged layers hold for category c: the
\* one in memory when the call starts and the ones of the loaded tiers.
MergedLists(h, before, c, field) ==
  [layer \in { "defaults" : x \in { c } \cap DOMAIN before }
               \cup { t \in TierNames :
                        /\ WellTyped(h[t])
                        /\ \E i \in DOMAIN EntriesOf(h[t]) : EntriesOf(h[t])[i].name = c }
     |-> IF layer = "defaults" THEN before[c].frontmatter[field]
         ELSE LET i == CHOOSE i \in DOMAIN EntriesOf(h[layer]) :
                         EntriesOf(h[layer])[i].name = c
              IN EntriesOf(h[layer])[i].config.frontmatter[field]]

LatestFirst == <<"local", "vault", "global">>

\* The value of the first tier of `order` that `defines` it, by `value`.
RECURSIVE FirstDefining(_, _, _, _, _)
FirstDefining(h, order, defines(_), value(_), otherwise) ==
  IF order = <<>> THEN otherwise
  ELSE IF defines(h[Head(order)]) THEN value(h[Head(order)])
  ELSE FirstDefining(h, Tail(order), defines, value, otherwise)

\* The scalar settings: the keys of the sections ai, backup, processing.
Sections == { "ai", "backup", "processing" }

ScalarsFollowLatest(h) ==
  \A s \in Sections :
    LET Has(tier, k) == tier # Undefined /\ s \in DOMAIN tier /\ k \in DOMAIN tier[s]
        keys == DOMAIN DefaultsLiteral[s]
                  \cup UNION { DOMAIN h[t][s] : t \in { t \in TierNames :
                                                         h[t] # Undefined /\ s \in DOMAIN h[t] } }
    IN /\ DOMAIN h.effective[s] = keys
       /\ \A k \in keys :
            LET D(tier) == Has(tier, k)
                V(tier) == tier[s][k]
            IN h.effective[s][k] =
                 FirstDefining(h, LatestFirst, D, V,
                               IF k \in DOMAIN DefaultsLiteral[s]
                               THEN DefaultsLiteral[s][k] ELSE "undefined")

\* The add / modify map a tier holds for category c (empty if none).
RuleMap(tier, c, field) ==
  LET idx == { i \in DOMAIN EntriesOf(tier) : EntriesOf(tier)[i].name = c }
  IN IF ~WellTyped(tier) \/ idx = {} THEN <<>>
     ELSE Get(EntriesOf(tier)[CHOOSE i \in idx : TRUE].config.frontmatter, field)

RulesFollowLatest(h) ==
  \A c \in DOMAIN h.effective.documentTypes, field \in {"add", "modify"} :
    \A k \in UNION { DOMAIN RuleMap(h[t], c, field) : t \in TierNames } :
      LET D(tier) == k \in DOMAIN RuleMap(tier, c, field)
          V(tier) == RuleMap(tier, c, field)[k]
      IN Get(h.effective.documentTypes[c].frontmatter, field)[k] =
           FirstDefining(h, LatestFirst, D, V, "undefined")

MaxActionItems == 2
MaxWords == 3

\* The score 1.0.
Unit == 1500

\* score * 0.4 and score * 0.2, as score * tenths / 10.
Weighted(score, tenths) == (score * tenths) \div 10

\* Math.min(score, 1.0)
MinOne(score) == IF score < Unit THEN score ELSE Unit

\* The header patterns each header text matches.
HeaderMatches(text) ==
  CASE text = "Agenda" -> {"meetingHeaders"}
    [] text = "Findings" -> {"researchHeaders"}
    [] text = "Plan" -> {"projectHeaders"}
    [] text = "Ideas" -> {"randomHeaders"}
    [] OTHER -> {}

\* The vocabularies a header text adds a match to (headers are part of the
\* content).
HeaderWords(text) ==
  CASE text = "Agenda" -> {"meetingWords"}
    [] text = "Findings" -> {"researchWords"}
    [] text = "Ideas" -> {"personalWords"}
    [] OTHER -> {}

\* The document types whose path patterns a file path matches.
PathMatches(filePath) ==
  CASE filePath = "/v/meetings/n.md" -> {"meeting-notes"}
    [] filePath = "/v/research/tasks.md" -> {"research", "project-work"}
    [] filePath = "/v/journal/notes.md" -> {"personal-notes", "meeting-notes"}
    [] OTHER -> {}

FilePaths == { "/v/n.md", "/v/meetings/n.md", "/v/research/tasks.md" }

ContentPatterns ==
  { "meetingWords", "timeReferences", "researchWords", "citations",
    "projectWords", "progress", "personalWords", "reflective", "informal" }

\* What the rest of a body adds to the match counts, to the links and to
\* the code blocks.
RestKinds == { "none", "research", "project", "personal" }

RestMatches(rest, pattern) ==
  CASE rest = "research" /\ pattern = "researchWords" -> 4
    [] rest = "research" /\ pattern = "citations" -> 1
    [] rest = "project" /\ pattern = "projectWords" -> 3
    [] rest = "project" /\ pattern = "progress" -> 1
    [] rest = "personal" /\ pattern = "personalWords" -> 3
    [] rest = "personal" /\ pattern = "reflective" -> 1
    [] rest = "personal" /\ pattern = "informal" -> 1
    [] OTHER -> 0

\* The values of the frontmatter fields of the model.
FieldValue(field) ==
  CASE field = "date" -> "2024-01-15"
    [] field = "attendees" -> <<"John", "Sarah">>
    [] field = "tags" -> <<"t">>
    [] OTHER -> "s"

HeaderLists == { <<>>, <<"Agenda">>, <<"Findings">>, <<"Agenda", "Plan">>, <<"Ideas">> }

\* A parsed document, as far as the classifier reads it.
ParsedDocument(filePath, fields, headers, items, words, time, rest) ==
  [filePath |-> filePath,
   frontmatter |-> [f \in fields |-> FieldValue(f)],
   structure |-> [headers |-> headers,
                  actionItems |-> items,
                  externalLinks |-> IF rest = "research" THEN 1 ELSE 0,
                  codeBlocks |-> IF rest = "project" THEN 1 ELSE 0],
   content |-> [pattern \in ContentPatterns |->
                  RestMatches(rest, pattern)
                  + Cardinality({ i \in DOMAIN headers : pattern \in HeaderWords(headers[i]) })
                  + (IF pattern = "meetingWords" THEN words ELSE 0)
                  + (IF pattern = "timeReferences" /\ time THEN 1 ELSE 0)]]

Documents ==
  { ParsedDocument(filePath, fields, headers, items, words, time, rest) :
      filePath \in FilePaths, fields \in SUBSET {"date", "attendees", "tags"},
      headers \in HeaderLists, items \in 0..MaxActionItems,
      words \in 0..MaxWords, time \in BOOLEAN, rest \in RestKinds }

\* scoreFrontmatter: the share of the keep fields that are present, times
\* 1.2 when three or more are.
scoreFrontmatter(doc, typeConfig) ==
  IF "frontmatter" \notin DOMAIN typeConfig THEN 0
  ELSE LET keep == Get(typeConfig.frontmatter, "keep")
           total == Len(keep)
           matches == Cardinality({ i \in DOMAIN keep : keep[i] \in DOMAIN doc.frontmatter })
           score == IF total > 0 THEN (matches * Unit) \div total ELSE 0
       IN IF matches >= 3 THEN (score * 6) \div 5 ELSE score

\* Whether some header matches the pattern.
HasHeader(doc, pattern) ==
  \E i \in DOMAIN doc.structure.headers : pattern \in HeaderMatches(doc.structure.headers[i])

\* n tenths of a point if the condition holds.
Tenths(condition, n) == IF condition THEN (n * Unit) \div 10 ELSE 0

\* The same routine with the checklist items left out.
scoreMeetingNotesPatterns_NoActionItems(doc) ==
  MinOne(Tenths(HasHeader(doc, "meetingHeaders"), 3)
         + Tenths(doc.content["meetingWords"] > 2, 2)
         + Tenths(doc.content["timeReferences"] > 0, 1))

scoreMeetingNotesPatterns(doc) ==
  MinOne(Tenths(HasHeader(doc, "meetingHeaders"), 3)
         + Tenths(doc.structure.actionItems > 0, 4)
         + Tenths(doc.content["meetingWords"] > 2, 2)
         + Tenths(doc.content["timeReferences"] > 0, 1))

scoreResearchPatterns(doc) ==
  MinOne(Tenths(HasHeader(doc, "researchHeaders"), 3)
         + Tenths(doc.structure.externalLinks > 0, 4)
         + Tenths(doc.content["researchWords"] > 3, 2)
         + Tenths(doc.content["citations"] > 0, 1))

scoreProjectWorkPatterns(doc) ==
  MinOne(Tenths(HasHeader(doc, "projectHeaders"), 3)
         + Tenths(doc.structure.codeBlocks > 0, 3)
         + Tenths(doc.content["projectWords"] > 2, 2)
         + Tenths(doc.content["progress"] > 0, 2))

scorePersonalNotesPatterns(doc) ==
  MinOne(Tenths(doc.content["personalWords"] > 2, 4)
         + Tenths(doc.content["reflective"] > 0, 3)
         + Tenths(doc.content["informal"] > 0, 2)
         + Tenths(HasHeader(doc, "randomHeaders"), 1))

\* scoreContentPatterns: one routine per built-in type name, 0 otherwise.
scoreContentPatterns(doc, typeName) ==
  CASE typeName = "meeting-notes" -> scoreMeetingNotesPatterns(doc)
    [] typeName = "research" -> scoreResearchPatterns(doc)
    [] typeName = "project-work" -> scoreProjectWorkPatterns(doc)
    [] typeName = "personal-notes" -> scorePersonalNotesPatterns(doc)
    [] OTHER -> 0

\* scoreFilePath: 0.8 when a path pattern of the type matches.
scoreFilePath(doc, typeName) ==
  Tenths(typeName \in PathMatches(doc.filePath), 8)

\* The TypeScore of one configured type.
TypeScore(doc, entry) ==
  [type |-> entry.name,
   confidence |-> MinOne(Weighted(scoreFrontmatter(doc, entry.config), 4)
                         + Weighted(scoreContentPatterns(doc, entry.name), 4)
                         + Weighted(scoreFilePath(doc, entry.name), 2))]

\* One step of a stable sort, highest confidence first.
RECURSIVE InsertByConfidence(_, _)
InsertByConfidence(sorted, score) ==
  IF sorted = <<>> THEN <<score>>
  ELSE IF Head(sorted).confidence >= score.confidence
  THEN <<Head(sorted)>> \o InsertByConfidence(Tail(sorted), score)
  ELSE <<score>> \o sorted

RECURSIVE SortFrom(_, _)
SortFrom(scores, sorted) ==
  IF scores = <<>> THEN sorted
  ELSE SortFrom(Tail(scores), InsertByConfidence(sorted, Head(scores)))

\* The scores left in the order of the configuration.
SortByConfidence_Unsorted(scores) == scores

\* scores.sort((a, b) => b.confidence - a.confidence); Array.prototype.sort
\* is stable.
SortByConfidence(scores) == SortFrom(scores, <<>>)

\* detectDocumentType(document) of a detector built on `entries`, the
\* document types in the order Object.keys gives them.
detectDocumentType(entries, doc) ==
  LET scores == SortByConfidence([i \in DOMAIN entries |-> TypeScore(doc, entries[i])])
  IN [primaryType |-> IF scores # <<>> THEN scores[1].type ELSE "unknown",
      allScores |-> scores]

\* A document type of the compiled-in defaults, as an entry.
DefaultEntry(typeName) ==
  [name |-> typeName, config |-> DefaultsLiteral.documentTypes[typeName]]

\* meeting-notes keeping the listed fields.
MeetingKeeping(keep) ==
  [name |-> "meeting-notes",
   config |-> [frontmatter |-> [keep |-> keep, remove |-> <<"author">>, add |-> <<>>],
               content |-> [summarize |-> FALSE]]]

\* A type without built-in content patterns, and one without frontmatter
\* rules.
TaggedEntry == [name |-> "custom",
                config |-> [frontmatter |-> [keep |-> <<"tags">>, remove |-> <<>>,
                                             add |-> <<>>],
                            content |-> [summarize |-> FALSE]]]
PlainEntry == [name |-> "plain", config |-> [content |-> [summarize |-> FALSE]]]

\* The configurations of the detector.
DetectorConfigs ==
  { <<MeetingKeeping(<<"date", "attendees">>)>>,
    <<DefaultEntry("meeting-notes"), DefaultEntry("research"),
      DefaultEntry("project-work"), DefaultEntry("personal-notes")>>,
    <<DefaultEntry("personal-notes"), DefaultEntry("project-work"),
      DefaultEntry("research"), DefaultEntry("meeting-notes")>>,
    <<DefaultEntry("research"), MeetingKeeping(<<"date", "attendees", "tags">>)>>,
    <<PlainEntry, TaggedEntry, MeetingKeeping(<<"date", "attendees">>)>>,
    <<TaggedEntry, PlainEntry>> }

NoDetection == [primaryType |-> "none", allScores |-> <<>>]

InitDetect ==
  /\ document \in Documents
  /\ detectorConfig \in DetectorConfigs
  /\ detection = NoDetection
  /\ DetectOnly

\* detect <file>: classify the parsed document.
Detect ==
  /\ detection = NoDetection
  /\ detection' = detectDocumentType(detectorConfig, document)
  /\ UNCHANGED <<document, detectorConfig>>

NextDetect ==
  \/ Detect /\ DetectFrame

SpecDetect == InitDetect /\ [][NextDetect]_vars

(***************************************************************************)
(* Claims about the classifier.                                            *)
(***************************************************************************)

\* The position of a type in the configuration.
ConfiguredAt(typeName) ==
  CHOOSE i \in DOMAIN detectorConfig : detectorConfig[i].name = typeName

IsMeetingScenario ==
  /\ {"date", "attendees"} \subseteq DOMAIN document.frontmatter
  /\ \E i \in DOMAIN document.structure.headers : document.structure.headers[i] = "Agenda"
  /\ document.structure.actionItems = 2
  /\ \E i \in DOMAIN detectorConfig :
       /\ detectorConfig[i].name = "meeting-notes"
       /\ detectorConfig[i].config.frontmatter.keep = <<"date", "attendees">>

\* The confidence the detection gives to meeting-notes.
MeetingConfidence ==
  LET i == CHOOSE i \in DOMAIN detection.allScores :
             detection.allScores[i].type = "meeting-notes"
  IN detection.allScores[i].confidence

Str(chunks) == [kind |-> "string", chunks |-> chunks, items |-> <<>>]

\* A JavaScript array of the values `items`.
Arr(items) == [kind |-> "array", chunks |-> <<>>, items |-> items]

\* The value of a field a change does not set.
NoValue == [kind |-> "undefined", chunks |-> <<>>, items |-> <<>>]

\* String(value): a string as it is, an array as its items joined by ",".
RECURSIVE JoinItems(_)
JoinItems(items) ==
  IF items = <<>> THEN <<>>
  ELSE IF Len(items) = 1 THEN Head(items).chunks
  ELSE Head(items).chunks \o <<",">> \o JoinItems(Tail(items))

String(value) ==
  IF value.kind = "array" THEN JoinItems(value.items) ELSE value.chunks

\* new Date().toISOString().split('T')[0]: the day of the clock.
DateChunk(ms) == "2024-01-0" \o ToString(1 + (ms \div TicksPerDay))

\* The placeholders that name a template function.
TemplateNames ==
  { "{{current_date}}", "{{aged_date}}", "{{word_count}}", "{{summary_length}}" }

\* templateFunctions[funcName](doc), at clock `ms`.
templateFunctions(placeholder, doc, ms) ==
  CASE placeholder \in {"{{current_date}}", "{{aged_date}}"} -> DateChunk(ms)
    [] placeholder = "{{word_count}}" -> ToString(doc.wordCount)
    [] placeholder = "{{summary_length}}" ->
         IF doc.wordCount < 100 THEN "very_short"
         ELSE IF doc.wordCount < 300 THEN "short"
         ELSE IF doc.wordCount < 800 THEN "medium"
         ELSE "long"

\* processTemplate(template, document): every placeholder that names a
\* template function is replaced by its result, any other is left as is; a
\* template that is not a string is returned as is.
processTemplate(template, doc, ms) ==
  IF template.kind # "string" THEN template
  ELSE Str([i \in DOMAIN template.chunks |->
              IF template.chunks[i] \in TemplateNames
              THEN templateFunctions(template.chunks[i], doc, ms)
              ELSE template.chunks[i]])

\* A modification rule that is an object, and one that is not.
ModRule(type, value) == [isObject |-> TRUE, type |-> type, value |-> value]
NotARule == [isObject |-> FALSE, type |-> "", value |-> NoValue]

\* [value] for a value that is not an array, the array itself otherwise.
ValuesToAdd(value) == IF value.kind = "array" THEN value.items ELSE <<value>>

\* applyModification(currentValue, modRule): the new value, and whether it
\* is the very object that was passed in (`same`).
applyModification(currentValue, modRule) ==
  LET Kept == [value |-> currentValue, same |-> TRUE]
      Made(v) == [value |-> v, same |-> FALSE]
  IN IF ~modRule.isObject THEN Kept
     ELSE CASE modRule.type = "append" ->
                 IF currentValue.kind = "array"
                 THEN Made(Arr(currentValue.items \o ValuesToAdd(modRule.value)))
                 ELSE IF currentValue.kind = "string"
                 THEN Made(Str(currentValue.chunks \o String(modRule.value)))
                 ELSE Kept
            [] modRule.type = "prepend" ->
                 IF currentValue.kind = "array"
                 THEN Made(Arr(ValuesToAdd(modRule.value) \o currentValue.items))
                 ELSE IF currentValue.kind = "string"
                 THEN Made(Str(String(modRule.value) \o currentValue.chunks))
                 ELSE Kept
            [] modRule.type = "replace" -> Made(modRule.value)
            [] OTHER -> Kept

\* newValue !== currentValue: strings differ by content, objects by
\* identity.
StrictlyUnequal(made, currentValue) ==
  IF made.value.kind = "string" /\ currentValue.kind = "string"
  THEN made.value # currentValue
  ELSE ~made.same

\* One FrontmatterChange.
FrontmatterChange(type, field, oldValue, newValue) ==
  [type |-> type, field |-> field, oldValue |-> oldValue, newValue |-> newValue]

\* The removals of planFrontmatterChanges, from the i-th rule on.
RECURSIVE PlanRemovals(_, _, _)
PlanRemovals(currentFrontmatter, remove, i) ==
  IF i > Len(remove) THEN <<>>
  ELSE (IF remove[i] \in DOMAIN currentFrontmatter
        THEN << FrontmatterChange("remove", remove[i],
                                  currentFrontmatter[remove[i]], NoValue) >>
        ELSE <<>>)
       \o PlanRemovals(currentFrontmatter, remove, i + 1)

\* The additions of planFrontmatterChanges, from the i-th rule on.
RECURSIVE PlanAdditions(_, _, _, _, _)
PlanAdditions(currentFrontmatter, add, doc, ms, i) ==
  IF i > Len(add) THEN <<>>
  ELSE (IF add[i].field \notin DOMAIN currentFrontmatter
        THEN << FrontmatterChange("add", add[i].field, NoValue,
                                  processTemplate(add[i].template, doc, ms)) >>
        ELSE <<>>)
       \o PlanAdditions(currentFrontmatter, add, doc, ms, i + 1)

\* The modifications of planFrontmatterChanges, from the i-th rule on.
RECURSIVE PlanModifications(_, _, _)
PlanModifications(currentFrontmatter, modify, i) ==
  IF i > Len(modify) THEN <<>>
  ELSE (IF modify[i].field \in DOMAIN currentFrontmatter
        THEN LET currentValue == currentFrontmatter[modify[i].field]
                 made == applyModification(currentValue, modify[i].rule)
             IN IF StrictlyUnequal(made, currentValue)
                THEN << FrontmatterChange("modify", modify[i].field,
                                          currentValue, made.value) >>
                ELSE <<>>
        ELSE <<>>)
       \o PlanModifications(currentFrontmatter, modify, i + 1)

\* The planner listing the additions before the removals.
planFrontmatterChanges_AdditionsFirst(frontmatter, rules, doc, ms) ==
  PlanAdditions(frontmatter, rules.add, doc, ms, 1)
    \o PlanRemovals(frontmatter, rules.remove, 1)
    \o PlanModifications(frontmatter, rules.modify, 1)

\* planFrontmatterChanges(document, rules): removals, then additions, then
\* modifications, each decided against the document's metadata as parsed.
planFrontmatterChanges(frontmatter, rules, doc, ms) ==
  PlanRemovals(frontmatter, rules.remove, 1)
    \o PlanAdditions(frontmatter, rules.add, doc, ms, 1)
    \o PlanModifications(frontmatter, rules.modify, 1)

\* The loop of applyFrontmatterChanges over `result`, from the i-th change.
RECURSIVE ApplyEach(_, _, _)
ApplyEach(result, changes, i) ==
  IF i > Len(changes) THEN result
  ELSE ApplyEach(IF changes[i].type = "remove"
                 THEN Remove(result, changes[i].field)
                 ELSE Put(result, changes[i].field, changes[i].newValue),
                 changes, i + 1)

\* A reference no object of the heap `h` has.
NewRef(h) == Cardinality(DOMAIN h) + 1

\* applyFrontmatterChanges working on the object it was given.
applyFrontmatterChanges_InPlace(h, frontmatter, changes) ==
  [heap |-> [h EXCEPT ![frontmatter] = ApplyEach(h[frontmatter], changes, 1)],
   result |-> frontmatter]

\* applyFrontmatterChanges(frontmatter, changes): a copy of the object
\* `frontmatter` refers to, with the changes applied in order.
applyFrontmatterChanges(h, frontmatter, changes) ==
  [heap |-> Put(h, NewRef(h), ApplyEach(h[frontmatter], changes, 1)),
   result |-> NewRef(h)]

\* AgeCommand.isEmptyPlan with every link change counted.
isEmptyPlan_CountingVerify(p) ==
  /\ Len(p.frontmatterChanges) = 0
  /\ Len(p.contentChanges) = 0
  /\ Len(p.linkChanges) = 0

\* AgeCommand.isEmptyPlan(plan)
isEmptyPlan(p) ==
  /\ Len(p.frontmatterChanges) = 0
  /\ Len(p.contentChanges) = 0
  /\ Len(SelectSeq(p.linkChanges, LAMBDA c : c.type # "verify")) = 0

\* AgeCommand.createChangePlan: the metadata changes of the rules, the link
\* changes planLinkChanges returned, no content change.
createChangePlan(h, doc, rules, linkChanges, ms) ==
  [frontmatterChanges |->
     planFrontmatterChanges(h[doc.frontmatter], rules, doc, ms),
   contentChanges |-> <<>>,
   linkChanges |-> linkChanges]

\* AgeCommand.applyChanges(document, plan): a copy of the document, with
\* new metadata when the plan has metadata changes; link changes are only
\* reported.
applyChanges(h, doc, p) ==
  IF Len(p.frontmatterChanges) > 0
  THEN LET r == applyFrontmatterChanges(h, doc.frontmatter, p.frontmatterChanges)
       IN [heap |-> r.heap,
           document |-> [doc EXCEPT !.frontmatter = r.result]]
  ELSE [heap |-> h, document |-> doc]

\* The fields in the order the serializer writes them, and their code
\* points.
FieldOrder ==
  << "author", "status", "tags", "aged_date", "summary_length" >>

FieldCode(field) ==
  CASE field = "author" -> 97
    [] field = "status" -> 115
    [] field = "tags" -> 116
    [] field = "aged_date" -> 100
    [] field = "summary_length" -> 108

\* The code point that stands for a value: a digit for its size.
ValueCode(value) == 48 + ((Len(value.chunks) + Len(value.items)) % 10)

\* The metadata block of matter.stringify for the fields from the i-th on.
RECURSIVE StringifyFields(_, _)
StringifyFields(frontmatter, i) ==
  IF i > Len(FieldOrder) THEN <<>>
  ELSE (IF FieldOrder[i] \in DOMAIN frontmatter
        THEN << FieldCode(FieldOrder[i]), ValueCode(frontmatter[FieldOrder[i]]) >>
        ELSE <<>>)
       \o StringifyFields(frontmatter, i + 1)

\* AgeCommand.generateUpdatedDocument(document): the body alone when the
\* metadata map is empty, the metadata block between "-" lines and the
\* body otherwise.
generateUpdatedDocument(h, doc) ==
  IF DOMAIN h[doc.frontmatter] = {} THEN doc.content
  ELSE <<45>> \o StringifyFields(h[doc.frontmatter], 1) \o <<45>> \o doc.content

\* What the parser makes of a note: its metadata, its body and the number
\* of words of the body.
ParseResults ==
  { [frontmatter |-> <<>>, content |-> <<66>>, wordCount |-> 50],
    [frontmatter |-> ("author" :> Str(<<"evan">>))
                       @@ ("tags" :> Arr(<<Str(<<"a">>)>>)),
     content |-> <<66>>, wordCount |-> 250],
    [frontmatter |-> ("aged_date" :> Str(<<DateChunk(0)>>))
                       @@ ("summary_length" :> Str(<<"short">>)),
     content |-> <<66, 66>>, wordCount |-> 250],
    [frontmatter |-> ("status" :> Str(<<"draft">>)),
     content |-> <<>>, wordCount |-> 850] }

\* One rule of `add` and one of `modify`, in the order of Object.entries.
AddRule(field, template) == [field |-> field, template |-> template]
ModifyRule(field, rule) == [field |-> field, rule |-> rule]

\* The metadata rules a document type can carry: those of the compiled-in
\* meeting notes, rules that only modify, rules that name one field in
\* every category, and no rule at all.
RuleSets ==
  { [remove |-> <<"author", "status", "draft">>,
     add |-> << AddRule("aged_date", Str(<<"{{current_date}}">>)),
                AddRule("summary_length", Str(<<"{{summary_length}}">>)) >>,
     modify |-> <<>>],
    [remove |-> <<>>,
     add |-> <<>>,
     modify |-> << ModifyRule("tags", ModRule("append", Arr(<<Str(<<"aged">>)>>))),
                   ModifyRule("author", NotARule) >>],
    [remove |-> <<"status">>,
     add |-> << AddRule("status", Str(<<"{{reviewed}}">>)) >>,
     modify |-> << ModifyRule("status", ModRule("replace", Str(<<"draft">>))) >>],
    [remove |-> <<>>, add |-> <<>>, modify |-> <<>>] }

\* One LinkChange.
LinkChange(type, status) == [type |-> type, status |-> status]

\* What planLinkChanges can return for the links of a document.
LinkChangeLists ==
  { <<>>,
    << LinkChange("verify", "valid") >>,
    << LinkChange("verify", "timeout"), LinkChange("remove", "broken") >>,
    << LinkChange("update", "redirect") >> }

\* The value of a pipeline variable that holds nothing yet.
Nothing == [kind |-> "nothing"]

\* A fresh vault and a pipeline that has not run.
InitPipeline ==
  /\ files = [p \in Paths |-> <<65>>]
  /\ backups = <<>>
  /\ registry = [d \in BackupDirs |-> AbsentRegistry]
  /\ ageDirs = {VaultDir}
  /\ now = 0
  /\ held = NoRecord
  /\ ops = 0
  /\ last = Report("init", NoPath, NoFault, "ok", NoRecord, NoRecord, <<>>, 0)
  /\ heap = <<>>
  /\ ageDocument = Nothing
  /\ changePlan = Nothing
  /\ processedDocument = Nothing
  /\ stage = "idle"
  /\ effects = <<>>
  /\ activeRules = Nothing
  /\ PipelineOnly

\* Steps 6 to 9 of AgeCommand.execute on document `doc` with plan `p`:
\* back up, apply, write, report.
Proceed(h, doc, p, asked) ==
  LET b == createBackup(Disk, ageDirs, doc.filePath, now, NoFault)
      applied == applyChanges(h, doc, p)
      newContent == generateUpdatedDocument(applied.heap, applied.document)
      wr == SafeWriteFile(b.disk.files, doc.filePath, newContent, NoFault, "target")
  IN /\ stage' = "idle"
     /\ IF ~b.ok
        THEN /\ SetDisk(b.disk)
             /\ heap' = h
             /\ processedDocument' = Nothing
             /\ effects' = asked \o <<"backup">>
             /\ last' = Report("age", doc.filePath, NoFault, "BackupFailed",
                               NoRecord, NoRecord, <<>>, 0)
        ELSE /\ SetDisk([b.disk EXCEPT !.files = wr.store])
             /\ heap' = applied.heap
             /\ processedDocument' = applied.document
             /\ effects' = asked \o <<"backup", "write">>
             /\ last' = Report("age", doc.filePath, NoFault, "ok",
                               NoRecord, b.info, <<>>, 0)

\* AgeCommand.execute(filePath, options) up to the prompt: parse, plan,
\* return if the plan is empty, ask the user if the run is interactive and
\* go on to the end if it is not.
StartAge ==
  \E p \in Paths, parsed \in ParseResults, rules \in RuleSets,
     linkChanges \in LinkChangeLists, interactive \in BOOLEAN :
    LET h == (1 :> parsed.frontmatter)
        doc == [filePath |-> p, frontmatter |-> 1,
                content |-> parsed.content, wordCount |-> parsed.wordCount]
        made == createChangePlan(h, doc, rules, linkChanges, now)
    IN /\ stage = "idle"
       /\ Step
       /\ ageDocument' = doc
       /\ activeRules' = rules
       /\ changePlan' = made
       /\ UNCHANGED <<ageDirs, now, held>>
       /\ IF isEmptyPlan(made)
          THEN /\ stage' = "idle"
               /\ heap' = h
               /\ processedDocument' = Nothing
               /\ effects' = <<>>
               /\ last' = Report("age", p, NoFault, "noop",
                                 NoRecord, NoRecord, <<>>, 0)
               /\ UNCHANGED <<files, backups, registry>>
          ELSE IF interactive
          THEN /\ stage' = "asking"
               /\ heap' = h
               /\ processedDocument' = Nothing
               /\ effects' = <<"ask">>
               /\ last' = Report("age", p, NoFault, "asking",
                                 NoRecord, NoRecord, <<>>, 0)
               /\ UNCHANGED <<files, backups, registry>>
          ELSE Proceed(h, doc, made, <<>>)

\* The user answers the prompt: every answer but abort goes on as approve.
Answer_OnlyAbortStops ==
  \E result \in {"APPROVE", "ABORT", "PREVIEW", "CONFIGURE"} :
    /\ stage = "asking"
    /\ Step
    /\ UNCHANGED <<ageDirs, now, held, ageDocument, changePlan, activeRules>>
    /\ IF result = "ABORT"
       THEN /\ stage' = "idle"
            /\ effects' = Append(effects, "abort")
            /\ last' = Report("age", ageDocument.filePath, NoFault, "cancelled",
                              NoRecord, NoRecord, <<>>, 0)
            /\ UNCHANGED <<files, backups, registry, heap, processedDocument>>
       ELSE Proceed(heap, ageDocument, changePlan,
                    Append(effects, CASE result = "APPROVE" -> "approve"
                                      [] result = "PREVIEW" -> "preview"
                                      [] OTHER -> "configure"))

\* The user answers the prompt of getApprovalForChanges.  Approve goes on
\* to the backup, abort ends the run; preview prints the plan in detail and
\* configure prints a notice, and each asks again.  The answer is kept with
\* the prompts in `effects`.
Answer ==
  \E result \in {"APPROVE", "ABORT", "PREVIEW", "CONFIGURE"} :
    /\ stage = "asking"
    /\ Step
    /\ UNCHANGED <<ageDirs, now, held, ageDocument, changePlan, activeRules>>
    /\ CASE result = "APPROVE" ->
              Proceed(heap, ageDocument, changePlan, Append(effects, "approve"))
         [] result = "ABORT" ->
              /\ stage' = "idle"
              /\ effects' = Append(effects, "abort")
              /\ last' = Report("age", ageDocument.filePath, NoFault, "cancelled",
                                NoRecord, NoRecord, <<>>, 0)
              /\ UNCHANGED <<files, backups, registry, heap, processedDocument>>
         [] result = "PREVIEW" ->
              /\ stage' = "asking"
              /\ effects' = effects \o <<"preview", "ask">>
              /\ UNCHANGED <<files, backups, registry, heap,
                             processedDocument, last>>
         [] result = "CONFIGURE" ->
              /\ stage' = "asking"
              /\ effects' = effects \o <<"configure", "ask">>
              /\ UNCHANGED <<files, backups, registry, heap,
                             processedDocument, last>>

NextPipeline ==
  \/ StartAge /\ PipelineFrame
  \/ Answer /\ PipelineFrame

SpecPipeline == InitPipeline /\ [][NextPipeline]_vars

(***************************************************************************)
(* Claims about the aging pipeline.                                        *)
(***************************************************************************)
\* A plan with no metadata change, no content change and no link change of
\* a kind other than verify.
NothingToChange(p) ==
  /\ p.frontmatterChanges = <<>>
  /\ p.contentChanges = <<>>
  /\ \A i \in DOMAIN p.linkChanges : p.linkChanges[i].type = "verify"

\* C16: a run whose computed plan has no metadata change, no content change
\* and no link change other than verify ends as a no-op: the user is not
\* asked, no backup file or backup record is created and the note is not
\* written.
C16_EmptyPlanIsNoOp ==
  [][ (stage = "idle" /\ NothingToChange(changePlan'))
        => /\ stage' = "idle"
           /\ effects' = <<>>
           /\ last'.outcome = "noop"
           /\ DiskUnchanged ]_vars

\* A run ended as a no-op on a plan that holds link verifications, in a
\* vault where an earlier run has left a backup.
C16_Witness ==
  /\ stage = "idle"
  /\ changePlan # Nothing
  /\ NothingToChange(changePlan)
  /\ changePlan.linkChanges # <<>>
  /\ last.outcome = "noop"
  /\ effects = <<>>
  /\ backups # <<>>

\* The step on which an approved plan is applied and written.
IsApplyStep ==
  /\ stage = "asking"
  /\ processedDocument' # Nothing

\* C17: applying a plan leaves the metadata map of the original document as
\* it was; a plan without metadata changes yields a document whose metadata
\* and body equal the original's; the link changes of a plan change neither
\* the metadata nor the body that result.
C17_ApplyCopies ==
  [][ IsApplyStep =>
        LET withoutLinks ==
              applyChanges(heap, ageDocument,
                           [changePlan EXCEPT !.linkChanges = <<>>])
        IN /\ ageDocument' = ageDocument
           /\ heap'[ageDocument.frontmatter] = heap[ageDocument.frontmatter]
           /\ processedDocument'.content = ageDocument.content
           /\ changePlan.frontmatterChanges = <<>>
                => heap'[processedDocument'.frontmatter]
                     = heap[ageDocument.frontmatter]
           /\ heap'[processedDocument'.frontmatter]
                = withoutLinks.heap[withoutLinks.document.frontmatter] ]_vars

\* An approved plan with metadata changes and link changes has been applied,
\* and the metadata that resulted differ from the original's.
C17_Witness ==
  /\ stage = "idle"
  /\ processedDocument # Nothing
  /\ "ask" \in Elems(effects)
  /\ changePlan.frontmatterChanges # <<>>
  /\ changePlan.linkChanges # <<>>
  /\ heap[processedDocument.frontmatter] # heap[ageDocument.frontmatter]

(***************************************************************************)
(* The link verifier: internal references.                                 *)
(*                                                                         *)
(*   src/src/filters/links.ts   LinkProcessor                              *)
(*                                                                         *)
(* A path is the sequence of its segments, "/" is <<>>.  The tree is the   *)
(* set of its files and the set of its directories.  The string functions  *)
(* of the code are tables over the names of the model.                     *)
(***************************************************************************)
\* The names of files and directories, in the order readdirSync lists the
\* entries of a directory.
TreeNames ==
  << ".age", ".obsidian", ".trash", "Note.md", "a", "b", "c", "d",
     "note", "note.md", "note.txt", "other.md" >>

\* name.startsWith('.')
startsWithDot(name) == name \in {".age", ".obsidian", ".trash"}

\* name.endsWith('.md')
endsWithMd(name) == name \in {"Note.md", "note.md", "other.md", "doc.md"}

\* name.includes('.')
includesDot(name) == startsWithDot(name) \/ endsWithMd(name) \/ name = "note.txt"

\* name.toLowerCase()
toLowerCase(name) ==
  CASE name = "Note.md" -> "note.md"
    [] name = "Note" -> "note"
    [] OTHER -> name

\* path.basename(filePath, '.md'): the last segment without a final ".md".
basename(filePath) ==
  LET name == filePath[Len(filePath)]
  IN CASE name = "Note.md" -> "Note"
       [] name = "note.md" -> "note"
       [] name = "other.md" -> "other"
       [] name = "doc.md" -> "doc"
       [] OTHER -> name

\* path.dirname(p)
dirname(p) == IF p = <<>> THEN <<>> ELSE SubSeq(p, 1, Len(p) - 1)

\* os.homedir()
homedir == <<"home">>

\* The directories of the model's vault: /v, a chain of four directories
\* below it, and a hidden directory.
VaultDirs ==
  { <<"v">>, <<"v", "a">>, <<"v", "a", "b">>, <<"v", "a", "b", "c">>,
    <<"v", "a", "b", "c", "d">>, <<"v", ".trash">> }

\* The vault markers that may exist.
VaultMarkers == { <<"v", ".obsidian">>, <<"v", "a", ".age">> }

\* The files that may exist.
VaultFiles ==
  { <<"v", "Note.md">>, <<"v", "other.md">>, <<"v", ".trash", "note.md">>,
    <<"v", "a", "note">>, <<"v", "a", "note.md">>, <<"v", "a", "note.txt">>,
    <<"v", "a", "b", "c", "note.md">>, <<"v", "a", "b", "c", "d", "note.md">> }

\* The trees the verifier can find on disk.
VaultTrees ==
  { [files |-> F, dirs |-> VaultDirs \cup M] :
      F \in SUBSET VaultFiles, M \in SUBSET VaultMarkers }

\* fs.existsSync(p)
existsSync(tree, p) == p \in tree.files \cup tree.dirs

\* const maxLevels = 5
maxLevels == 5

\* The loop of findVaultRoot from `currentDir`, `levelsUp` levels above
\* `startDir`.
RECURSIVE RootFrom(_, _, _, _)
RootFrom(tree, currentDir, levelsUp, startDir) ==
  IF currentDir = dirname(currentDir) \/ levelsUp >= maxLevels THEN startDir
  ELSE IF currentDir = homedir THEN startDir
  ELSE IF existsSync(tree, Append(currentDir, ".obsidian")) THEN currentDir
  ELSE IF existsSync(tree, Append(currentDir, ".age")) THEN currentDir
  ELSE RootFrom(tree, dirname(currentDir), levelsUp + 1, startDir)

\* findVaultRoot(documentPath): the nearest directory at or above the
\* document's that holds .obsidian or .age, the document's directory if
\* there is none.
findVaultRoot(tree, documentPath) ==
  RootFrom(tree, dirname(documentPath), 0, dirname(documentPath))

\* maxDepth: number = 3
maxDepth == 3

\* The entries getAllMarkdownFiles passes over.
Skipped(name) ==
  startsWithDot(name) \/ name \in {"node_modules", "Library", "System"}

\* getAllMarkdownFiles(directory, maxDepth, currentDepth), and its loop over
\* the entries of the directory from the i-th name on.
RECURSIVE getAllMarkdownFiles(_, _, _)
RECURSIVE ScanEntries(_, _, _, _)
ScanEntries(tree, directory, currentDepth, i) ==
  IF i > Len(TreeNames) THEN <<>>
  ELSE LET fullPath == Append(directory, TreeNames[i])
       IN (IF ~existsSync(tree, fullPath) \/ Skipped(TreeNames[i]) THEN <<>>
           ELSE IF fullPath \in tree.files /\ endsWithMd(TreeNames[i])
           THEN <<fullPath>>
           ELSE IF fullPath \in tree.dirs
           THEN getAllMarkdownFiles(tree, fullPath, currentDepth + 1)
           ELSE <<>>)
          \o ScanEntries(tree, directory, currentDepth, i + 1)

getAllMarkdownFiles(tree, directory, currentDepth) ==
  IF currentDepth > maxDepth THEN <<>>
  ELSE ScanEntries(tree, directory, currentDepth, 1)

\* linkPath + '.md'
WithMd(linkPath) ==
  [linkPath EXCEPT ![Len(linkPath)] = @ \o ".md"]

\* findMatchingFiles comparing names as they are written.
findMatchingFiles_CaseSensitive(tree, linkPath, vaultRoot) ==
  IF Len(linkPath) > 1 \/ includesDot(linkPath[1])
  THEN (IF existsSync(tree, vaultRoot \o linkPath)
        THEN <<vaultRoot \o linkPath>> ELSE <<>>)
       \o (IF ~endsWithMd(linkPath[Len(linkPath)])
              /\ existsSync(tree, vaultRoot \o WithMd(linkPath))
           THEN <<vaultRoot \o WithMd(linkPath)>> ELSE <<>>)
  ELSE SelectSeq(getAllMarkdownFiles(tree, vaultRoot, 0),
                 LAMBDA filePath : basename(filePath) = linkPath[1])

\* findMatchingFiles(linkPath, vaultRoot): for a link with a "." or a "/",
\* the path below the vault root and the same path with ".md"; for a bare
\* name, the markdown files of the vault with that basename, whatever the
\* case.
findMatchingFiles(tree, linkPath, vaultRoot) ==
  IF Len(linkPath) > 1 \/ includesDot(linkPath[1])
  THEN (IF existsSync(tree, vaultRoot \o linkPath)
        THEN <<vaultRoot \o linkPath>> ELSE <<>>)
       \o (IF ~endsWithMd(linkPath[Len(linkPath)])
              /\ existsSync(tree, vaultRoot \o WithMd(linkPath))
           THEN <<vaultRoot \o WithMd(linkPath)>> ELSE <<>>)
  ELSE SelectSeq(getAllMarkdownFiles(tree, vaultRoot, 0),
                 LAMBDA filePath :
                   toLowerCase(basename(filePath)) = toLowerCase(linkPath[1]))

\* An internal reference as the parser or a caller writes it: with or
\* without the [[ ]] decoration, the target split at "/", the display text
\* after "|" ("" if there is none).
Reference(decorated, linkPath, display) ==
  [decorated |-> decorated, linkPath |-> linkPath, display |-> display]

\* link.replace(/^\[\[|\]\]$/g, '')
cleanLink(link) == [link EXCEPT !.decorated = FALSE]

\* resolvedPath and alternatives of a result that has none.
NoResolvedPath == <<>>
NoAlternatives == <<>>

\* verifyVaultLink(link, documentPath)
verifyVaultLink(tree, link, documentPath) ==
  LET vaultRoot == findVaultRoot(tree, documentPath)
      matches == findMatchingFiles(tree, cleanLink(link).linkPath, vaultRoot)
  IN IF Len(matches) = 0
     THEN [link |-> cleanLink(link), status |-> "broken",
           resolvedPath |-> NoResolvedPath, alternatives |-> NoAlternatives]
     ELSE IF Len(matches) = 1
     THEN [link |-> cleanLink(link), status |-> "valid",
           resolvedPath |-> matches[1], alternatives |-> NoAlternatives]
     ELSE [link |-> cleanLink(link), status |-> "ambiguous",
           resolvedPath |-> matches[1], alternatives |-> Tail(matches)]

\* The references and the documents verifyVaultLink is called with.
References ==
  { Reference(FALSE, <<"note">>, ""),
    Reference(TRUE, <<"Note">>, "shown"),
    Reference(FALSE, <<"other">>, ""),
    Reference(FALSE, <<"missing">>, ""),
    Reference(FALSE, <<"note.md">>, ""),
    Reference(FALSE, <<"note.txt">>, ""),
    Reference(TRUE, <<"a", "note">>, ""),
    Reference(FALSE, <<"a", "b">>, "") }

DocumentPaths == { <<"v", "doc.md">>, <<"v", "a", "doc.md">> }

\* No call of verifyVaultLink yet.
NoVaultCall ==
  [link |-> Reference(FALSE, <<>>, ""), documentPath |-> <<>>,
   result |-> [link |-> Reference(FALSE, <<>>, ""), status |-> "none",
               resolvedPath |-> NoResolvedPath,
               alternatives |-> NoAlternatives]]

\* Some tree on disk, no call yet.
InitVault ==
  /\ vaultTree \in VaultTrees
  /\ vaultResult = NoVaultCall
  /\ linkCache = <<>>
  /\ clock = 0
  /\ waits = 0
  /\ planning = <<>>
  /\ linkPlan = <<>>
  /\ LinkOnly

\* LinkProcessor.verifyVaultLink called on a reference of a document.
VerifyVaultLink ==
  \E link \in References, documentPath \in DocumentPaths :
    /\ vaultResult' = [link |-> link, documentPath |-> documentPath,
                       result |-> verifyVaultLink(vaultTree, link, documentPath)]
    /\ UNCHANGED <<vaultTree, linkCache, clock, waits, planning, linkPlan>>

NextVault == VerifyVaultLink /\ LinkFrame

SpecVault == InitVault /\ [][NextVault]_vars

(***************************************************************************)
(* Claims about internal references.                                       *)
(***************************************************************************)
\* The position of a name in the listing order of a directory.
Rank(name) == CHOOSE i \in DOMAIN TreeNames : TreeNames[i] = name

\* p is listed before q by a traversal that lists each directory in order
\* and descends into a sub-directory where it stands.
ListedBefore(p, q) ==
  \E k \in 1..Len(p) :
    /\ k <= Len(q)
    /\ SubSeq(p, 1, k - 1) = SubSeq(q, 1, k - 1)
    /\ p[k] # q[k]
    /\ Rank(p[k]) < Rank(q[k])

\* The entries of the tree a reference from a document stands for: for a
\* target with a "." or a "/", the path below the vault root and that path
\* with ".md"; for a bare name, the markdown files with that basename,
\* whatever the case, at most maxDepth directories below the vault root and
\* below no hidden directory.
MatchesOf(tree, link, documentPath) ==
  LET root == findVaultRoot(tree, documentPath)
      target == link.linkPath
      name == target[Len(target)]
  IN IF Len(target) > 1 \/ includesDot(target[1])
     THEN { p \in {root \o target}
                    \cup (IF endsWithMd(name) THEN {}
                          ELSE {root \o [target EXCEPT ![Len(target)] = name \o ".md"]}) :
              p \in tree.files \cup tree.dirs }
     ELSE { f \in tree.files :
              /\ Len(f) > Len(root)
              /\ SubSeq(f, 1, Len(root)) = root
              /\ Len(f) - Len(root) - 1 <= 3
              /\ \A i \in (Len(root) + 1)..Len(f) : ~startsWithDot(f[i])
              /\ endsWithMd(f[Len(f)])
              /\ toLowerCase(basename(f)) = toLowerCase(name) }

cacheExpiry == 24 * 60 * 60 * 1000

\* setTimeout(() => controller.abort(), 10000)
FetchTimeout == 10000

\* The clock advances by five seconds or by twelve hours at a time, at most
\* MaxWaits times.
ShortWait == 5000
LongWait == 43200000
MaxWaits == 3

\* One link of a document's structure.
ExternalLink(url) == [type |-> "external", url |-> url, link |-> Reference(FALSE, <<>>, "")]
InternalLink(link) == [type |-> "internal", url |-> "", link |-> link]

\* The links a document can hold: two URLs, the same URL twice, an external
\* link without URL, internal references between external links.
LinkLists ==
  { <<>>,
    << ExternalLink("u1") >>,
    << ExternalLink("u1"), ExternalLink("u2") >>,
    << ExternalLink("u1"), ExternalLink("u1") >>,
    << ExternalLink("u2"), InternalLink(Reference(FALSE, <<"note">>, "")),
       ExternalLink("u1") >>,
    << ExternalLink(""), InternalLink(Reference(TRUE, <<"missing">>, "")) >> }

\* What a fetch settles with: a response with its status and its Location
\* header ("" if it has none), or an exception with its code.
Response(status, location) ==
  [kind |-> "response", status |-> status, location |-> location, code |-> ""]
Rejection(code) ==
  [kind |-> "error", status |-> 0, location |-> "", code |-> code]

Settlements ==
  { Response(200, ""), Response(301, "u3"), Response(304, ""),
    Response(404, ""), Response(100, ""),
    Rejection("ENOTFOUND"), Rejection("ECONNRESET") }

\* A LinkVerificationResult with the timestamp the cache puts on it;
\* statusCode 0 and redirectUrl "" stand for undefined.
VerificationResult(url, status, statusCode, redirectUrl, timestamp) ==
  [url |-> url, status |-> status, statusCode |-> statusCode,
   redirectUrl |-> redirectUrl, timestamp |-> timestamp]

\* The try block of verifyExternalLink for a fetch that settled with `s`,
\* and its catch block for one that threw; the result is stamped at `ms`.
Settle(url, s, ms) ==
  IF s.kind = "response"
  THEN IF s.status >= 200 /\ s.status < 300
       THEN VerificationResult(url, "valid", s.status, "", ms)
       ELSE IF s.status >= 300 /\ s.status < 400
       THEN VerificationResult(url, "redirect", s.status, s.location, ms)
       ELSE IF s.status >= 400
       THEN VerificationResult(url, "broken", s.status, "", ms)
       ELSE VerificationResult(url, "error", s.status, "", ms)
  ELSE IF s.code = "AbortError"
       THEN VerificationResult(url, "timeout", 0, "", ms)
       ELSE IF s.code \in {"ENOTFOUND", "ECONNREFUSED"}
       THEN VerificationResult(url, "broken", 0, "", ms)
       ELSE VerificationResult(url, "error", 0, "", ms)

\* The cache check without the age of the entry.
CacheHit_NoExpiry(cache, url, ms) == url \in DOMAIN cache

\* cached && Date.now() - cached.timestamp < this.cacheExpiry
CacheHit(cache, url, ms) ==
  /\ url \in DOMAIN cache
  /\ ms - cache[url].timestamp < cacheExpiry

\* One LinkChange of an external link and one of an internal reference.
ExternalChange(type, url, status, newUrl) ==
  [type |-> type, url |-> url, link |-> Reference(FALSE, <<>>, ""),
   status |-> status, newUrl |-> newUrl]
InternalChange(type, link, status) ==
  [type |-> type, url |-> "", link |-> link, status |-> status, newUrl |-> ""]

\* The change planLinkChanges pushes for an external link that verified as
\* `verification`.
PlanExternal(link, verification) ==
  IF verification.status = "broken"
  THEN ExternalChange("remove", link.url, "broken", "")
  ELSE IF verification.status = "redirect" /\ verification.redirectUrl # ""
  THEN ExternalChange("update", link.url, "redirect", verification.redirectUrl)
  ELSE ExternalChange("verify", link.url, verification.status, "")

\* The change planLinkChanges pushes for an internal reference.
PlanInternal(link, verification) ==
  IF verification.status = "broken"
  THEN InternalChange("remove", link.link, "broken")
  ELSE InternalChange("verify", link.link, "valid")

\* No fetch is awaited.
NoFetch == [url |-> "", startTime |-> 0]

\* No call of planLinkChanges is running.
NotPlanning ==
  [status |-> "idle", links |-> <<>>, documentPath |-> <<>>,
   verifyExternal |-> TRUE, verifyInternal |-> TRUE,
   i |-> 1, changes |-> <<>>, pending |-> NoFetch]

\* The trees the planner runs in: an empty vault, and one with two notes of
\* the same name.
PlannerTrees ==
  { [files |-> {}, dirs |-> VaultDirs],
    [files |-> { <<"v", "Note.md">>, <<"v", "a", "note.md">> },
     dirs |-> VaultDirs \cup { <<"v", ".obsidian">> }] }

\* A new LinkProcessor: an empty cache.
InitLinks ==
  /\ vaultTree \in PlannerTrees
  /\ vaultResult = NoVaultCall
  /\ linkCache = <<>>
  /\ clock = 0
  /\ waits = 0
  /\ planning = NotPlanning
  /\ linkPlan = <<>>
  /\ LinkOnly

\* planLinkChanges(links, documentPath, verifyExternal, verifyInternal) is
\* called: once, as AgeCommand.createChangePlan does with the LinkProcessor
\* of its run.
BeginPlan ==
  \E links \in LinkLists, documentPath \in DocumentPaths,
     verifyExternal \in BOOLEAN :
    /\ planning.status = "idle"
    /\ planning' = [status |-> "running", links |-> links,
                    documentPath |-> documentPath,
                    verifyExternal |-> verifyExternal,
                    verifyInternal |-> TRUE,
                    i |-> 1, changes |-> <<>>, pending |-> NoFetch]
    /\ UNCHANGED <<vaultTree, vaultResult, linkCache, clock, waits, linkPlan>>

\* The loop of planLinkChanges reaches link i: an external link whose
\* result is cached and an internal reference push their change, an
\* external link that is not cached has its fetch issued and awaited.
Iterate ==
  LET link == planning.links[planning.i]
      Push(change) ==
        planning' = [planning EXCEPT !.i = @ + 1,
                                     !.changes = Append(@, change)]
  IN /\ planning.status = "running"
     /\ planning.pending = NoFetch
     /\ planning.i <= Len(planning.links)
     /\ UNCHANGED <<vaultTree, vaultResult, linkCache, clock, waits, linkPlan>>
     /\ IF link.type = "external" /\ planning.verifyExternal /\ link.url # ""
        THEN IF CacheHit(linkCache, link.url, clock)
             THEN Push(PlanExternal(link, linkCache[link.url]))
             ELSE planning' = [planning EXCEPT
                                 !.pending = [url |-> link.url,
                                              startTime |-> clock]]
        ELSE IF link.type = "internal" /\ planning.verifyInternal
                /\ link.link.linkPath # <<>>
        THEN Push(PlanInternal(link, verifyVaultLink(vaultTree, link.link,
                                                     planning.documentPath)))
        ELSE planning' = [planning EXCEPT !.i = @ + 1]

\* The awaited fetch has settled as `s`: verifyExternalLink caches and
\* returns its result, planLinkChanges pushes the change.
Settled(s) ==
  LET url == planning.pending.url
      result == Settle(url, s, clock)
  IN /\ linkCache' = Put(linkCache, url, result)
     /\ planning' = [planning EXCEPT
                       !.i = @ + 1,
                       !.changes = Append(@, PlanExternal(planning.links[planning.i],
                                                          result)),
                       !.pending = NoFetch]
     /\ UNCHANGED <<vaultTree, vaultResult, clock, waits, linkPlan>>

\* The server answers, or the connection fails, before the timer fires.
Respond ==
  \E s \in Settlements :
    /\ planning.status = "running"
    /\ planning.pending # NoFetch
    /\ clock - planning.pending.startTime < FetchTimeout
    /\ Settled(s)

\* The timer fires: controller.abort() rejects the fetch with AbortError.
Abort ==
  /\ planning.status = "running"
  /\ planning.pending # NoFetch
  /\ clock - planning.pending.startTime >= FetchTimeout
  /\ Settled(Rejection("AbortError"))

\* Time passes; a timer that is due fires before more time passes.
Wait ==
  \E d \in {ShortWait, LongWait} :
    /\ waits < MaxWaits
    /\ planning.pending # NoFetch
         => clock - planning.pending.startTime < FetchTimeout
    /\ clock' = clock + d
    /\ waits' = waits + 1
    /\ UNCHANGED <<vaultTree, vaultResult, linkCache, planning, linkPlan>>

\* The loop of planLinkChanges is over: the changes are returned.
Return ==
  /\ planning.status = "running"
  /\ planning.pending = NoFetch
  /\ planning.i > Len(planning.links)
  /\ linkPlan' = planning.changes
  /\ planning' = [planning EXCEPT !.status = "returned"]
  /\ UNCHANGED <<vaultTree, vaultResult, linkCache, clock, waits>>

NextLinks ==
  \/ BeginPlan /\ LinkFrame
  \/ Iterate /\ LinkFrame
  \/ Respond /\ LinkFrame
  \/ Abort /\ LinkFrame
  \/ Wait /\ LinkFrame
  \/ Return /\ LinkFrame

SpecLinks == InitLinks /\ [][NextLinks]_vars

(***************************************************************************)
(* Claims about external links and planning.                               *)
(***************************************************************************)
\* The step pushes the change of an external link.
PushesExternal ==
  /\ planning.status = "running"
  /\ Len(planning'.changes) = Len(planning.changes) + 1
  /\ planning.links[planning.i].type = "external"

\* C18: the change planned for a verified external link has kind remove
\* (with status broken) when the verification status is broken, as for a 404
\* response; kind update when the status is redirect; kind verify, carrying
\* the status, for every other status, timeout and error included.
C18_KindFollowsStatus ==
  [][ PushesExternal =>
        LET change == planning'.changes[Len(planning'.changes)]
            verification == linkCache'[change.url]
        IN /\ verification.statusCode = 404 => verification.status = "broken"
           /\ verification.status = "broken"
                => change.type = "remove" /\ change.status = "broken"
           /\ verification.status = "redirect" => change.type = "update"
           /\ verification.status \notin {"broken", "redirect"}
                => change.type = "verify" /\ change.status = verification.status
     ]_vars

\* The check of link j has started: the loop of planLinkChanges has reached
\* it.
CheckStarted(j) == j <= planning.i

\* C20: the checks of distinct external URLs proceed independently: while
\* the fetch of one URL has been awaited for some time, the check of every
\* other URL of the document has started.
C20_ChecksIndependent ==
  (/\ planning.status = "running"
   /\ planning.pending # NoFetch
   /\ clock > planning.pending.startTime)
    => \A j \in DOMAIN planning.links :
         (/\ planning.links[j].type = "external"
          /\ planning.verifyExternal
          /\ planning.links[j].url \notin {"", planning.pending.url})
           => CheckStarted(j)

\* The step on which verifyExternalLink is called for the link the loop has
\* reached.
CallsVerifyExternal ==
  /\ planning.status = "running"
  /\ planning.pending = NoFetch
  /\ planning.i <= Len(planning.links)
  /\ planning.links[planning.i].type = "external"
  /\ planning.verifyExternal
  /\ planning.links[planning.i].url # ""
  /\ planning' # planning

\* C21: a call of verifyExternalLink for a URL whose cache entry is younger
\* than 24 hours returns the cached result and issues no request and leaves
\* the cache alone; any other call issues a request, and when the request
\* has settled the entry of the URL is replaced by the new result, stamped
\* with the time of the answer.
C21_CacheShortCircuits ==
  [][ /\ CallsVerifyExternal =>
           LET url == planning.links[planning.i].url
           IN IF url \in DOMAIN linkCache
                 /\ clock - linkCache[url].timestamp < 86400000
              THEN /\ planning'.pending = NoFetch
                   /\ linkCache' = linkCache
                   /\ planning'.changes
                        = Append(planning.changes,
                                 PlanExternal(planning.links[planning.i],
                                              linkCache[url]))
              ELSE /\ planning'.pending = [url |-> url, startTime |-> clock]
                   /\ planning'.changes = planning.changes
      /\ (planning.status = "running" /\ planning.pending # NoFetch
            /\ planning'.pending = NoFetch)
           => /\ DOMAIN linkCache' = DOMAIN linkCache \cup {planning.pending.url}
              /\ linkCache'[planning.pending.url].timestamp = clock
              /\ \A u \in DOMAIN linkCache :
                   u # planning.pending.url => linkCache'[u] = linkCache[u]
    ]_vars

\* A document links the same URL twice; the second check ran a full day
\* after the first answer, so it asked the server again and replaced the
\* entry.
C21_Witness ==
  /\ planning.status = "returned"
  /\ Len(linkPlan) = 2
  /\ linkPlan[1].url = "u1"
  /\ linkPlan[2].url = "u1"
  /\ linkCache["u1"].timestamp >= 86400000

(***************************************************************************)
(* The parser (src/utils/markdown.ts): step 1 of AgeCommand.execute.       *)
(*                                                                         *)
(* A note is a sequence of code points.  Code point 45 stands for a "---"  *)
(* line.  A metadata block is what stands between a leading "---" line and *)
(* the next one; in a well-formed block every field is a pair of a field   *)
(* code and a digit, as generateUpdatedDocument writes them.               *)
(***************************************************************************)
\* The notes the parser meets: no block, one field, two fields and no body,
\* an empty block, a block with an unclosed "[", a field whose value is an
\* unclosed "[", and a note that is not valid utf8.
ParserBytes ==
  { <<66>>,
    <<45, 97, 49, 45, 66>>,
    <<45, 115, 49, 116, 50, 45>>,
    <<45, 45, 66>>,
    <<45, 91, 45, 66>>,
    <<45, 97, 91, 45, 66>>,
    <<255>> }

\* The text opens with a "---" line.
HasBlock(text) == text # <<>> /\ Head(text) = 45

\* The position of the line that closes the block, or one past the end of
\* the text when no such line follows.
BlockEnd(text) ==
  IF \E i \in 2..Len(text) : text[i] = 45
  THEN CHOOSE i \in 2..Len(text) :
         text[i] = 45 /\ \A j \in 2..(i - 1) : text[j] # 45
  ELSE Len(text) + 1

BlockOf(text) == SubSeq(text, 2, BlockEnd(text) - 1)

IsFieldCode(c) == \E i \in DOMAIN FieldOrder : FieldCode(FieldOrder[i]) = c

\* The YAML engine accepts the block: fields and digits alternate.
YamlLoads(block) ==
  /\ Len(block) % 2 = 0
  /\ \A k \in DOMAIN block :
       IF k % 2 = 1 THEN IsFieldCode(block[k]) ELSE block[k] \in 48..57

\* The map the YAML engine makes of an accepted block: the scalar behind a
\* digit has as many pieces as the digit says.
yamlLoad(block) ==
  LET fields == { FieldOrder[i] : i \in DOMAIN FieldOrder }
      at(f) == CHOOSE k \in DOMAIN block :
                 k % 2 = 1 /\ block[k] = FieldCode(f)
                 /\ \A j \in DOMAIN block :
                      (j % 2 = 1 /\ block[j] = FieldCode(f)) => j <= k
      present == { f \in fields :
                     \E k \in DOMAIN block : k % 2 = 1 /\ block[k] = FieldCode(f) }
  IN [f \in present |-> Str([n \in 1..(block[at(f) + 1] - 48) |-> "x"])]

\* matter(content) of gray-matter: no block gives an empty map and the whole
\* text as body; a block is handed to the YAML engine, whose exception on a
\* block it cannot load is not caught.
matter(text) ==
  IF ~HasBlock(text)
  THEN [threw |-> FALSE, data |-> <<>>, content |-> text]
  ELSE IF ~YamlLoads(BlockOf(text))
  THEN [threw |-> TRUE, data |-> <<>>, content |-> <<>>]
  ELSE [threw |-> FALSE, data |-> yamlLoad(BlockOf(text)),
        content |-> SubSeq(text, BlockEnd(text) + 1, Len(text))]

\* MarkdownParser.validateFile(filePath): the message of the error it
\* throws, or "" when it returns.  No note of the model reaches the 10 MB of
\* the size warning.
validateFile(store, filePath, fault) ==
  IF filePath \notin DOMAIN store THEN "not found"
  ELSE IF fault = <<"access", "EACCES">> THEN "Permission denied"
  ELSE ""

\* MarkdownParser.parseDocument(filePath): validate, read, parse the
\* metadata block, build the document.  Nothing in it catches an exception
\* and nothing in it warns.
parseDocument(store, filePath, fault) ==
  LET message == validateFile(store, filePath, fault)
      matterResult == matter(SafeReadFile(store, filePath))
  IN IF message # ""
     THEN [threw |-> TRUE, message |-> message, warnings |-> <<>>,
           frontmatter |-> <<>>, content |-> <<>>]
     ELSE IF matterResult.threw
     THEN [threw |-> TRUE, message |-> "YAMLException", warnings |-> <<>>,
           frontmatter |-> <<>>, content |-> <<>>]
     ELSE [threw |-> FALSE, message |-> "", warnings |-> <<>>,
           frontmatter |-> matterResult.data, content |-> matterResult.content]

\* A vault whose notes carry no metadata block; nothing has been parsed.
InitParse ==
  /\ files = [p \in Paths |-> <<66>>]
  /\ backups = <<>>
  /\ registry = [d \in BackupDirs |-> AbsentRegistry]
  /\ ageDirs = {VaultDir}
  /\ now = 0
  /\ held = NoRecord
  /\ ops = 0
  /\ last = Report("init", NoPath, NoFault, "ok", NoRecord, NoRecord, <<>>, 0)
  /\ heap = <<>>
  /\ ageDocument = Nothing
  /\ changePlan = Nothing
  /\ processedDocument = Nothing
  /\ stage = "idle"
  /\ effects = <<>>
  /\ activeRules = Nothing
  /\ PipelineOnly

\* The user saves a note.
SaveNote ==
  \E p \in Paths, bytes \in ParserBytes :
    /\ Step
    /\ files' = Put(files, p, bytes)
    /\ last' = Report("edit", p, NoFault, "ok", NoRecord, NoRecord, <<>>, 0)
    /\ UNCHANGED <<backups, registry, ageDirs, now, held, planVars>>

\* Step 1 of AgeCommand.execute(filePath): parseDocument, and the catch of
\* execute, which prints the error and exits with status 1, when it throws.
ParseStep ==
  \E p \in Paths, fault \in {NoFault, <<"access", "EACCES">>} :
    LET parsed == parseDocument(files, p, fault)
    IN /\ Step
       /\ effects' = parsed.warnings
       /\ IF parsed.threw
          THEN /\ last' = Report("parse", p, fault, "failed",
                                 NoRecord, NoRecord, <<>>, 0)
               /\ heap' = <<>>
               /\ ageDocument' = Nothing
          ELSE /\ last' = Report("parse", p, fault, "ok",
                                 NoRecord, NoRecord, <<>>, 0)
               /\ heap' = (1 :> parsed.frontmatter)
               /\ ageDocument' = [filePath |-> p, frontmatter |-> 1,
                                  content |-> parsed.content, wordCount |-> 0]
       /\ UNCHANGED <<files, backups, registry, ageDirs, now, held,
                      changePlan, processedDocument, stage, activeRules>>

NextParse ==
  \/ SaveNote /\ PipelineFrame
  \/ ParseStep /\ PipelineFrame

SpecParse == InitParse /\ [][NextParse]_vars

\* The note opens a metadata block that the YAML engine does not accept.
MalformedBlock(text) == HasBlock(text) /\ ~YamlLoads(BlockOf(text))

\* C22: parsing a readable note whose metadata block is malformed does not
\* fail: it yields a document with an empty metadata map, and a warning.
C22_MalformedBlockParsesEmpty ==
  (/\ last.op = "parse"
   /\ last.fault = NoFault
   /\ MalformedBlock(SafeReadFile(files, last.path)))
    => /\ last.outcome = "ok"
       /\ heap = (1 :> <<>>)
       /\ effects # <<>>

(***************************************************************************)
(* Further claims about the configuration resolver.                        *)
(***************************************************************************)
\* The tier file of `dir` cannot be processed to its end on top of
\* `effective`: it is not JSON, or merging it throws.
TierFails(effective, cfgFiles, dir) ==
  \/ loadConfigFile(cfgFiles[dir]).threw
  \/ mergeConfig(effective, loadConfigFile(cfgFiles[dir]).value).threw

\* The configuration obtained by merging, in order, the tiers of `dirs`
\* that exist and can be processed to their end, and leaving out the others
\* as if they were absent.
RECURSIVE MergeSound(_, _, _)
MergeSound(effective, cfgFiles, dirs) ==
  IF dirs = <<>> THEN effective
  ELSE IF Head(dirs) = "null" \/ ~ConfigExists(cfgFiles, Head(dirs))
            \/ TierFails(effective, cfgFiles, Head(dirs))
  THEN MergeSound(effective, cfgFiles, Tail(dirs))
  ELSE MergeSound(mergeConfig(effective, cfgFiles[Head(dirs)].value).target,
                  cfgFiles, Tail(dirs))

\* The tier directories of a path, in the order they are merged.
TierDirs(cfgFiles, filePath) ==
  << HomeDir, findVaultConfig(cfgFiles, filePath), findLocalConfig(cfgFiles, filePath) >>

\* C23: a tier whose processing fails (a file that is not JSON, or a
\* category entry that lacks a rule field) is skipped as a whole: the
\* effective configuration is the one obtained with that tier absent, with
\* none of the tier's settings or categories merged.
C23_FailedTierSkippedWhole ==
  [][IsResolveStep =>
       hierarchy'.effective
         = MergeSound(DEFAULT_CONFIG, configFiles,
                      TierDirs(configFiles, hierarchy'.path))]_vars

(***************************************************************************)
(* Further claims about the classifier.                                    *)
(***************************************************************************)
\* C24: each of the three partial scores of a category (metadata, content,
\* path) lies within [0,1] when it is combined, so the metadata part adds at
\* most 0.4 to the confidence, the content part at most 0.4 and the path
\* part at most 0.2, also when the 1.2 bonus for three or more matching
\* keep fields applies.
C24_PartialScoresWithinUnit ==
  detection # NoDetection =>
    \A i \in DOMAIN detectorConfig :
      LET entry == detectorConfig[i]
          metadata == scoreFrontmatter(document, entry.config)
          content == scoreContentPatterns(document, entry.name)
          path == scoreFilePath(document, entry.name)
      IN /\ metadata \in 0..Unit
         /\ content \in 0..Unit
         /\ path \in 0..Unit
         /\ Weighted(metadata, 4) * 10 <= 4 * Unit
         /\ Weighted(content, 4) * 10 <= 4 * Unit
         /\ Weighted(path, 2) * 10 <= 2 * Unit

(***************************************************************************)
(* The metadata planner on its own: FrontmatterProcessor planning and      *)
(* applying, run after run, on documents and rule sets drawn at the start. *)
(***************************************************************************)
\* The documents the planner is given.
PlannerParses ==
  ParseResults
    \cup { [frontmatter |-> ("status" :> Str(<<"draft">>))
                              @@ ("tags" :> Arr(<<Str(<<"a">>)>>))
                              @@ ("author" :> Str(<<"evan">>)),
            content |-> <<66>>, wordCount |-> 50] }

\* The rule sets of the pipeline, and rule sets whose modify rules compute
\* a value equal to the current one: an empty list appended to tags, the
\* author replaced by the same text, the tags replaced by an equal list, a
\* text prepended to both.
PlannerRuleSets ==
  RuleSets
    \cup { [remove |-> <<"draft">>,
            add |-> << AddRule("tags", Str(<<"{{current_date}}">>)) >>,
            modify |-> << ModifyRule("tags", ModRule("append", Arr(<<>>))),
                          ModifyRule("author", ModRule("replace", Str(<<"evan">>))) >>],
           [remove |-> <<"summary_length">>,
            add |-> <<>>,
            modify |-> << ModifyRule("tags", ModRule("replace", Arr(<<Str(<<"a">>)>>))) >>],
           [remove |-> <<"status", "author">>,
            add |-> << AddRule("aged_date", Str(<<"{{current_date}}">>)),
                       AddRule("author", Str(<<"{{unknown}}">>)) >>,
            modify |-> << ModifyRule("author", ModRule("prepend", Str(<<"dr">>))),
                          ModifyRule("tags", ModRule("prepend", Str(<<"x">>))) >>] }

\* A parsed document and the rules of its type; nothing planned yet.
InitPlanner ==
  /\ \E parsed \in PlannerParses, p \in Paths :
       /\ heap = (1 :> parsed.frontmatter)
       /\ ageDocument = [filePath |-> p, frontmatter |-> 1,
                         content |-> parsed.content, wordCount |-> parsed.wordCount]
  /\ activeRules \in PlannerRuleSets
  /\ changePlan = Nothing
  /\ processedDocument = Nothing
  /\ stage = "parsed"
  /\ effects = <<>>
  /\ BackupIdle
  /\ PipelineOnly

\* Step 4 of AgeCommand.execute: createChangePlan on the document, without
\* links.
PlanMetadata ==
  /\ stage = "parsed"
  /\ Step
  /\ changePlan' = createChangePlan(heap, ageDocument, activeRules, <<>>, 0)
  /\ stage' = "planned"
  /\ UNCHANGED <<heap, ageDocument, processedDocument, effects, activeRules>>
  /\ UNCHANGED <<files, backups, registry, ageDirs, now, held, last>>

\* Step 7 of AgeCommand.execute: applyChanges; the document it returns is
\* the one the next run of age plans for.
ApplyMetadata ==
  LET applied == applyChanges(heap, ageDocument, changePlan)
  IN /\ stage = "planned"
     /\ changePlan.frontmatterChanges # <<>>
     /\ Step
     /\ heap' = applied.heap
     /\ processedDocument' = applied.document
     /\ ageDocument' = applied.document
     /\ stage' = "parsed"
     /\ UNCHANGED <<changePlan, effects, activeRules>>
     /\ UNCHANGED <<files, backups, registry, ageDirs, now, held, last>>

NextPlanner ==
  \/ PlanMetadata /\ PipelineFrame
  \/ ApplyMetadata /\ PipelineFrame

SpecPlanner == InitPlanner /\ [][NextPlanner]_vars

(***************************************************************************)
(* Claims about the metadata planner.                                      *)
(***************************************************************************)
\* The fields of the add rules and of the modify rules, in rule order.
FieldsOf(ruleList) == [i \in DOMAIN ruleList |-> ruleList[i].field]

\* The elements of `list` that are in `keep`, in order.
RECURSIVE Restrict(_, _)
Restrict(list, keep) ==
  IF list = <<>> THEN <<>>
  ELSE (IF Head(list) \in keep THEN <<Head(list)>> ELSE <<>>)
       \o Restrict(Tail(list), keep)

\* list is a subsequence of `of`.
RECURSIVE IsSubsequence(_, _)
IsSubsequence(list, of) ==
  IF list = <<>> THEN TRUE
  ELSE IF of = <<>> THEN FALSE
  ELSE IF Head(list) = Head(of) THEN IsSubsequence(Tail(list), Tail(of))
  ELSE IsSubsequence(list, Tail(of))

C26_ModifyOnlyIfDifferent ==
  [][ (stage = "parsed" /\ stage' = "planned") =>
        \A i \in DOMAIN changePlan'.frontmatterChanges :
          LET change == changePlan'.frontmatterChanges[i]
          IN change.type = "modify" => change.newValue # change.oldValue
    ]_vars

(***************************************************************************)
(* Further claims about the aging pipeline.                                *)
(***************************************************************************)
\* The step leaves the notes, the backup copies and the registries alone.
DiskUntouched == files' = files /\ backups' = backups /\ registry' = registry

\* C27: an interactive run leaves the approval step only through approve or
\* abort; preview and configure each lead to the question being asked again
\* with the same plan; a backup is made and the note written only after
\* approve, and after abort neither happens.
C27_ApprovalLoop ==
  [][ /\ stage' = "asking" => DiskUntouched
      /\ (stage = "asking" /\ ops' # ops) =>
           LET answer == effects'[Len(effects) + 1]
           IN /\ SubSeq(effects', 1, Len(effects)) = effects
              /\ CASE answer \in {"preview", "configure"} ->
                        /\ stage' = "asking"
                        /\ effects' = effects \o <<answer, "ask">>
                        /\ changePlan' = changePlan
                        /\ ageDocument' = ageDocument
                        /\ heap' = heap
                        /\ DiskUntouched
                   [] answer = "abort" ->
                        /\ stage' = "idle"
                        /\ effects' = Append(effects, "abort")
                        /\ last'.outcome = "cancelled"
                        /\ DiskUntouched
                   [] answer = "approve" ->
                        /\ stage' = "idle"
                        /\ effects'[Len(effects) + 2] = "backup"
                        /\ ("write" \in Elems(effects')) = (files' # files
                              \/ last'.outcome = "ok")
                        /\ backups' # backups \/ last'.outcome = "BackupFailed"
                   [] OTHER -> FALSE
    ]_vars

\* The user asked for the preview, was asked again and approved: the note
\* was backed up and written.
C27_Witness ==
  /\ stage = "idle"
  /\ last.outcome = "ok"
  /\ effects = <<"ask", "preview", "ask", "approve", "backup", "write">>

\* C28: resolving never modifies the compiled-in defaults, and what a call
\* returns depends only on the defaults and on the tier files of its path:
\* it is what the same call returns in a process that has resolved nothing
\* before.
C28_ResolveLeavesDefaults ==
  [][IsResolveStep =>
       /\ DEFAULT_CONFIG' = DefaultsLiteral
       /\ hierarchy'.effective
            = loadConfigHierarchy(DefaultsLiteral, configFiles,
                                  hierarchy'.path).effective]_vars

\* C29: re-aging converges: planning again, with the same rules, for the
\* document a successful apply returned yields no metadata change, and no
\* field of the remove rule is present in that document's metadata.
C29_ReAgingConverges ==
  [][ (stage = "parsed" /\ stage' = "planned"
         /\ processedDocument # Nothing /\ ageDocument = processedDocument) =>
        /\ changePlan'.frontmatterChanges = <<>>
        /\ \A i \in DOMAIN activeRules.remove :
             activeRules.remove[i] \notin DOMAIN heap[ageDocument.frontmatter]
    ]_vars

(***************************************************************************)
(* Backups in a vault that gains configuration anchors: `age init` run in  *)
(* a directory creates its .age directory (ConfigManager.createLocalConfig *)
(* in src/config/hierarchy.ts).                                            *)
(***************************************************************************)
\* A fresh vault with its one anchor; both notes hold the same text.
InitAnchors ==
  /\ files = [p \in Paths |-> <<65>>]
  /\ backups = <<>>
  /\ registry = [d \in BackupDirs |-> AbsentRegistry]
  /\ ageDirs = {VaultDir}
  /\ now = 0
  /\ held = NoRecord
  /\ ops = 0
  /\ last = Report("init", NoPath, NoFault, "ok", NoRecord, NoRecord, <<>>, 0)
  /\ BackupOnly

\* ConfigManager.createLocalConfig(directory): the .age directory and its
\* backups directory exist afterwards; no note, backup file or registry is
\* touched.
CreateLocalConfig ==
  \E directory \in AnchorDirs :
    /\ Step
    /\ ageDirs' = ageDirs \cup {directory}
    /\ last' = Report("anchor", DirAsPath(directory), NoFault, "ok",
                      NoRecord, NoRecord, <<>>, 0)
    /\ UNCHANGED <<files, backups, registry, now, held>>

NextAnchors ==
  \/ Backup /\ BackupFrame
  \/ Restore /\ BackupFrame
  \/ Undo /\ BackupFrame
  \/ CreateLocalConfig /\ BackupFrame

SpecAnchors == InitAnchors /\ [][NextAnchors]_vars

\* C30: a restore point is never lost from view: after any sequence of
\* backups, restores and anchor creations, the list of backups of a note
\* holds a record for every backup taken of it whose backup file exists.
\* (The list is the one an undo shows before anything is restored.)
C30_RestorePointsStayInView ==
  (last.op = "undo" /\ last.outcome \in {"NoBackups", "cancelled"}) =>
    \A d \in BackupDirs :
      \A i \in DOMAIN registry[d].entries :
        LET taken == registry[d].entries[i]
        IN (taken.originalPath = last.path /\ taken.backupPath \in DOMAIN backups)
             => \E j \in DOMAIN last.list :
                  last.list[j].backupPath = taken.backupPath

====
